---- MODULE Spec2Model ----
(***************************************************************************)
(* Model of the classification-and-aggregation engine of codescan.py:      *)
(* the pattern catalog, analyze_file, update_results, scan_repository,     *)
(* and the spreadsheet export (analyze_excel_demographic_data and          *)
(* export_demographic_to_files).                                           *)
(*                                                                         *)
(* A line of text is a sequence of whitespace-separated tokens.  A token   *)
(* is an atom of a small vocabulary; Words(tok) gives the regex words      *)
(* (maximal runs of \w characters) it holds, as written, and Frags(tok)    *)
(* the lowercased catalog fragments it holds as substrings.                *)
(***************************************************************************)
EXTENDS Integers, Sequences, FiniteSets, TLC

(***************************************************************************)
(* Bounds                                                                  *)
(***************************************************************************)
\* largest number of update_results calls in one run of the fold harness
MaxFolds == 3
\* largest number of matched spreadsheet records
MaxRecords == 48
\* largest number of rows of a table whose rows vary
MaxRows == 2
MaxScans == 2
MaxLines == 3
MaxLines2 == 2

(***************************************************************************)
(* Sequence and set helpers                                                *)
(***************************************************************************)
Range(s) == { s[k] : k \in 1..Len(s) }

Min(a, b) == IF a < b THEN a ELSE b

RECURSIVE SumSet(_, _)
\* sum of g[x] over the finite set S
SumSet(S, g) ==
    IF S = {} THEN 0
    ELSE LET x == CHOOSE y \in S : TRUE IN g[x] + SumSet(S \ {x}, g)

RECURSIVE SumSeq(_)
SumSeq(s) == IF s = <<>> THEN 0 ELSE s[1] + SumSeq(Tail(s))

RECURSIVE Perms(_)
\* all orderings of the finite set S
Perms(S) ==
    IF S = {} THEN { <<>> }
    ELSE UNION { { <<x>> \o p : p \in Perms(S \ {x}) } : x \in S }

(***************************************************************************)
(* Text model                                                              *)
(***************************************************************************)
Tokens == { "home_address", "HOME_ADDRESS", "home_address2", "gov_id",
            "name", "get", "api", "@GetMapping", "topic", "x",
            "@GetMapping(\"/api/users\")", "http://x.io/api", "@WebService",
            "SOAPBody", "xmlns:", "wsdl", "url", "select", "from",
            "jdbc:mysql", "queue", "amqp", "json", "load" }

\* the regex words of a token, left to right, as written
Words(tok) ==
    CASE tok = "@GetMapping" -> << "GetMapping" >>
      [] tok = "@GetMapping(\"/api/users\")" -> << "GetMapping", "api", "users" >>
      [] tok = "http://x.io/api" -> << "http", "x", "io", "api" >>
      [] tok = "@WebService" -> << "WebService" >>
      [] tok = "xmlns:" -> << "xmlns" >>
      [] tok = "jdbc:mysql" -> << "jdbc", "mysql" >>
      [] OTHER -> << tok >>

\* a word taken as it is written
LowerAsWritten(w) == w

\* str.lower / re.IGNORECASE folding of a word
Lower(w) ==
    CASE w = "HOME_ADDRESS" -> "home_address"
      [] w = "GetMapping" -> "getmapping"
      [] w = "WebService" -> "webservice"
      [] w = "SOAPBody" -> "soapbody"
      [] OTHER -> w

\* lowercased catalog fragments a token holds as substrings
Frags(tok) ==
    CASE tok = "@GetMapping" -> { "@getmapping" }
      [] tok = "@GetMapping(\"/api/users\")" -> { "@getmapping" }
      [] tok = "http://x.io/api" -> { "http://" }
      [] tok = "@WebService" -> { "@webservice", "webservice" }
      [] tok = "SOAPBody" -> { "soapbody" }
      [] tok = "xmlns:" -> { "xmlns:" }
      [] tok = "wsdl" -> { "wsdl" }
      [] tok = "jdbc:mysql" -> { "jdbc:" }
      [] tok = "topic" -> { "topic" }
      [] tok = "queue" -> { "queue" }
      [] tok = "amqp" -> { "amqp" }
      [] OTHER -> {}

\* the lowercased catalog texts a token starts with, at a word boundary
Starts(tok) ==
    CASE tok = "url" -> { "url" }
      [] tok = "from" -> { "from" }
      [] tok = "json" -> { "json" }
      [] OTHER -> {}

\* the lowercased catalog texts a token ends with, at a word boundary
Ends(tok) ==
    CASE tok = "wsdl" -> { "wsdl" }
      [] tok = "select" -> { "select" }
      [] tok = "load" -> { "load" }
      [] OTHER -> {}

RECURSIVE LineWords(_)
\* the words of a line, left to right, as written
LineWords(line) ==
    IF line = <<>> THEN <<>> ELSE Words(Head(line)) \o LineWords(Tail(line))

LineFrags(line) == UNION { Frags(line[k]) : k \in 1..Len(line) }

\* a token ending with one of `heads` is followed, after one blank, by a
\* token starting with one of `tails`
Adjacent(line, heads, tails) ==
    \E k \in 1..(Len(line) - 1) :
        Ends(line[k]) \cap heads # {} /\ Starts(line[k + 1]) \cap tails # {}

(***************************************************************************)
(* PatternCatalog                                                          *)
(***************************************************************************)
\* self.demographic_patterns, in dict order; each regex is \b(w1|w2|...)\b
demographic_patterns == <<
    [data_type |-> "id",
     words |-> { "customerid", "cm_15", "gov_id", "gov_ids", "government_id" }],
    [data_type |-> "name",
     words |-> { "embossed_name", "embossed_company_name", "primary_name",
                 "secondary_name", "legal_name", "dba_name", "double_byte_name",
                 "first_name", "last_name", "full_name", "name", "amount" }],
    [data_type |-> "address",
     words |-> { "home_address", "business_address", "alternate_address",
                 "temporary_address", "other_address", "additional_addresses",
                 "address", "street", "city", "state", "zip", "postal_code" }],
    [data_type |-> "phone",
     words |-> { "home_phone", "alternate_home_phone", "business_phone",
                 "alternate_business_phone", "mobile_phone",
                 "alternate_mobile_phone", "attorney_phone", "fax", "ani_phone",
                 "other_phone", "additional_phone", "phone", "contact" }],
    [data_type |-> "email",
     words |-> { "servicing_email", "estatement_email", "business_email",
                 "other_email_address", "email" }],
    [data_type |-> "identity",
     words |-> { "ssn", "social_security", "tax_id", "passport", "gov_id",
                 "gov_ids", "government_id" }],
    [data_type |-> "demographics",
     words |-> { "gender", "dob", "date_of_birth", "age", "nationality",
                 "ethnicity", "preference_language_cd", "member_since_date" }] >>

\* the sub-rules of self.integration_patterns, in dict order
integration_patterns == <<
    [pattern_type |-> "rest_api",      sub_type |-> "http_methods"],
    [pattern_type |-> "rest_api",      sub_type |-> "url_patterns"],
    [pattern_type |-> "rest_api",      sub_type |-> "api_endpoints"],
    [pattern_type |-> "soap_services", sub_type |-> "soap_components"],
    [pattern_type |-> "soap_services", sub_type |-> "wsdl"],
    [pattern_type |-> "soap_services", sub_type |-> "soap_operations"],
    [pattern_type |-> "soap_services", sub_type |-> "xml_namespaces"],
    [pattern_type |-> "soap_services", sub_type |-> "soap_annotations"],
    [pattern_type |-> "soap_services", sub_type |-> "soap_endpoints"],
    [pattern_type |-> "database",      sub_type |-> "sql_operations"],
    [pattern_type |-> "database",      sub_type |-> "db_connections"],
    [pattern_type |-> "messaging",     sub_type |-> "kafka"],
    [pattern_type |-> "messaging",     sub_type |-> "rabbitmq"],
    [pattern_type |-> "messaging",     sub_type |-> "jms"],
    [pattern_type |-> "file",          sub_type |-> "file_operations"] >>

\* re.search(pattern, line, re.IGNORECASE) for one sub-rule, on lines made
\* of the tokens above
IntegrationSearch(rule, line) ==
    LET ws == LineWords(line)
        frags == LineFrags(line)
    IN
    CASE rule.sub_type = "http_methods" ->
            \* \b(get|post|put|delete|patch)\b.*\b(api|endpoint)\b
            \E a, b \in 1..Len(ws) :
                /\ a < b
                /\ Lower(ws[a]) \in { "get", "post", "put", "delete", "patch" }
                /\ Lower(ws[b]) \in { "api", "endpoint" }
      [] rule.sub_type = "url_patterns" ->
            \* https?://[^\s<>"]+|www\.[^\s<>"]+
            frags \cap { "http://", "https://", "www." } # {}
      [] rule.sub_type = "api_endpoints" ->
            frags \cap { "@requestmapping", "@getmapping", "@postmapping",
                         "@putmapping", "@deletemapping" } # {}
      [] rule.sub_type = "soap_components" ->
            \* \b(soap|wsdl|xml)\b
            \E a \in 1..Len(ws) : Lower(ws[a]) \in { "soap", "wsdl", "xml" }
      [] rule.sub_type = "wsdl" ->
            \* wsdl|WSDL|\.wsdl|getWSDL|WebService[Client]?
            frags \cap { "wsdl", "webservice" } # {}
      [] rule.sub_type = "soap_operations" ->
            frags \cap { "soapmessage", "soapenvelope", "soapbody",
                         "soapheader", "soapclient", "soapbinding" } # {}
      [] rule.sub_type = "xml_namespaces" ->
            \* xmlns[:=]|namespace|schemaLocation
            frags \cap { "xmlns:", "xmlns=", "namespace", "schemalocation" } # {}
      [] rule.sub_type = "soap_annotations" ->
            frags \cap { "@webservice", "@webmethod", "@soapbinding",
                         "@webresult", "@webparam" } # {}
      [] rule.sub_type = "soap_endpoints" ->
            \* endpoint[_\s]?url|service[_\s]?url|wsdl[_\s]?url
            \/ frags \cap { "endpoint_url", "endpointurl", "service_url",
                            "serviceurl", "wsdl_url", "wsdlurl" } # {}
            \/ Adjacent(line, { "endpoint", "service", "wsdl" }, { "url" })
      [] rule.sub_type = "sql_operations" ->
            \* \b(select|insert|update|delete)\s+from|into\b
            \/ Adjacent(line, { "select", "insert", "update", "delete" },
                        { "from" })
            \/ \E k \in 1..Len(line) : "into" \in Ends(line[k])
      [] rule.sub_type = "db_connections" ->
            \* jdbc:|connection[_\s]?string|database[_\s]?url
            \/ frags \cap { "jdbc:", "connection_string", "connectionstring",
                            "database_url", "databaseurl" } # {}
            \/ Adjacent(line, { "connection" }, { "string" })
            \/ Adjacent(line, { "database" }, { "url" })
      [] rule.sub_type = "kafka" ->
            frags \cap { "kafka", "producer", "consumer", "topic" } # {}
      [] rule.sub_type = "rabbitmq" ->
            frags \cap { "rabbitmq", "amqp" } # {}
      [] rule.sub_type = "jms" ->
            frags \cap { "jms", "queue", "topic" } # {}
      [] rule.sub_type = "file_operations" ->
            \* \b(csv|excel|xlsx|json|properties).*(read|write|load|save)\b
            \E a, b \in 1..Len(line) :
                /\ a < b
                /\ Starts(line[a]) \cap { "csv", "excel", "xlsx", "json",
                                          "properties" } # {}
                /\ Ends(line[b]) \cap { "read", "write", "load", "save" } # {}
      [] OTHER -> FALSE

(***************************************************************************)
(* Python dict helpers: a dict is a function, its keys are its DOMAIN      *)
(***************************************************************************)
EmptyDict == [k \in {} |-> {}]

DictSet(d, key, val) ==
    [k \in (DOMAIN d) \cup {key} |-> IF k = key THEN val ELSE d[k]]

(***************************************************************************)
(* File system seen by the scan                                            *)
(***************************************************************************)
\* files of the root directory and of its subdirectory, by path
RootFiles == { "a.py", "b.java", "notes.txt" }
SubFiles == { "sub/c.py" }
AllFiles == RootFiles \cup SubFiles

\* Path.suffix
Suffix(path) ==
    CASE path = "a.py" -> ".py"
      [] path = "b.java" -> ".java"
      [] path = "sub/c.py" -> ".py"
      [] path = "notes.txt" -> ".txt"

\* keys of self.supported_extensions
supported_extensions ==
    { ".py", ".java", ".js", ".ts", ".cs", ".php", ".rb", ".xsd" }

CodeFiles == { f \in AllFiles : Suffix(f) \in supported_extensions }

\* file contents the model draws from (a content is a sequence of lines)
Contents == {
    << >>,
    << << "x", "home_address" >>, << "gov_id", "name", "topic" >>,
       << "select", "from", "wsdl", "url" >> >>,
    << << "HOME_ADDRESS", "home_address" >>, << "home_address2" >>,
       << "HOME_ADDRESS", "get", "api" >> >>,
    << << "@GetMapping(\"/api/users\")" >>, << "name", "name" >>,
       << "get", "http://x.io/api", "@WebService", "json", "load" >> >> }

\* what the one file with an unsupported suffix holds
OtherContent == << << "@GetMapping", "api" >>, << "name", "name" >> >>

VARIABLES
    root_ok,       \* whether repo_path exists and can be listed
    fs,            \* path -> [readable, content]: the files under repo_path
    results,       \* the results dict of scan_repository
    file_results,  \* the dict returned by the latest analyze_file call
    shared,        \* fields of file_results whose data object is also
                   \* referenced from results['demographic_data']
    fr_folded,     \* TRUE once file_results was passed to update_results
    stale,         \* TRUE once a file_results dict was folded a second time
    code_files,    \* the list returned by get_code_files
    idx,           \* position of the for loop of scan_repository
    cur_path,      \* the file_path the latest analyze_file call was given
    returned,      \* what each scan_repository call gave its caller, in
                   \* call order: the results dict or the exception
    pc,            \* control state of the running operation
    df,            \* the DataFrame read by analyze_excel_demographic_data
    attr_desc_col, \* the description column it chose, <<>> for None
    excel_summary, \* total_records and demographic_fields_found of its summary
    data,          \* matched spreadsheet records handed to the export
    chunks,        \* the chunks written by export_demographic_to_files
    written,       \* the file names written by export_demographic_to_files
    i,             \* loop variable of export_demographic_to_files
    exported_files, \* summary.exported_files of analyze_excel_demographic_data
    lines1,        \* the lines of the first file given to compare_files
    lines2,        \* the lines of the second file
    dups1,         \* find_duplicates_within_file(file1)
    dups2,         \* find_duplicates_within_file(file2)
    common,        \* find_duplicates_between_files(file1, file2)
    common_swapped \* find_duplicates_between_files(file2, file1)

vars == << root_ok, fs, results, file_results, shared, fr_folded, stale, code_files, idx,
           cur_path, returned, pc,
           df, attr_desc_col, excel_summary,
           data, chunks, written, i, exported_files,
           lines1, lines2, dups1, dups2, common, common_swapped >>

scanVars == << root_ok, fs, results, file_results, shared, fr_folded, stale, code_files, idx,
              cur_path, returned >>
excelVars == << df, attr_desc_col, excel_summary,
               data, chunks, written, i, exported_files >>

compareVars == << lines1, lines2, dups1, dups2, common, common_swapped >>

(***************************************************************************)
(* compare_files: duplicates within a file and between two files           *)
(***************************************************************************)
\* the characters str.strip() removes, among those of the model
Whitespace == { " ", "\n" }

RECURSIVE StripLeft(_)
StripLeft(s) ==
    IF s # <<>> /\ Head(s) \in Whitespace THEN StripLeft(Tail(s)) ELSE s

RECURSIVE StripRight(_)
StripRight(s) ==
    IF s # <<>> /\ s[Len(s)] \in Whitespace
    THEN StripRight(SubSeq(s, 1, Len(s) - 1)) ELSE s

\* line.strip()
Strip(s) == StripRight(StripLeft(s))

\* the lines a file of the model is made of, each with its line end
RawLines == { << "\n" >>, << "a", "\n" >>, << " ", "a", "\n" >>, << "b", "\n" >> }

RECURSIVE FilesOfLength(_)
FilesOfLength(n) ==
    IF n = 0 THEN { <<>> }
    ELSE { Append(f, l) : f \in FilesOfLength(n - 1), l \in RawLines }

\* the files of at most n lines
FilesUpTo(n) == UNION { FilesOfLength(k) : k \in 0..n }

\* a dict of first lines in which a repeated text moves to its latest line
SeenAfterLatest(seen, line, line_num) == DictSet(seen, line, line_num)

\* lines 15-18 of compare_files.py: seen after one non-blank line
SeenAfter(seen, line, line_num) ==
    IF line \in DOMAIN seen THEN seen ELSE DictSet(seen, line, line_num)

RECURSIVE WithinLoop(_, _, _, _)
\* lines 12-18 of compare_files.py: the loop over enumerate(f, 1)
WithinLoop(lines, line_num, seen, duplicates) ==
    IF line_num > Len(lines) THEN duplicates
    ELSE LET line == Strip(lines[line_num]) IN
         IF line = <<>>
         THEN WithinLoop(lines, line_num + 1, seen, duplicates)
         ELSE WithinLoop(lines, line_num + 1,
                         SeenAfter(seen, line, line_num),
                         IF line \in DOMAIN seen
                         THEN Append(duplicates, << line, seen[line], line_num >>)
                         ELSE duplicates)

\* find_duplicates_within_file(filepath)
find_duplicates_within_file(lines) == WithinLoop(lines, 1, EmptyDict, <<>>)

\* a dict that keeps the first line number of a text only
EntriesAfterFirstOnly(entries, line, line_num) ==
    IF line \in DOMAIN entries THEN entries
    ELSE DictSet(entries, line, << line_num >>)

\* lines 31-33 and 39-41: entries[line] after one non-blank line
EntriesAfter(entries, line, line_num) ==
    DictSet(entries, line,
            Append(IF line \in DOMAIN entries THEN entries[line] ELSE <<>>,
                   line_num))

RECURSIVE EntriesLoop(_, _, _)
\* lines 28-33 and 36-41: the loop that fills entries1 or entries2
EntriesLoop(lines, line_num, entries) ==
    IF line_num > Len(lines) THEN entries
    ELSE LET line == Strip(lines[line_num]) IN
         EntriesLoop(lines, line_num + 1,
                     IF line = <<>> THEN entries
                     ELSE EntriesAfter(entries, line, line_num))

\* find_duplicates_between_files(file1, file2): the lists it can return,
\* one for each order in which the set of common texts can be iterated
find_duplicates_between_files(file1, file2) ==
    LET entries1 == EntriesLoop(file1, 1, EmptyDict)
        entries2 == EntriesLoop(file2, 1, EmptyDict)
        common_entries == (DOMAIN entries1) \cap (DOMAIN entries2)
    IN { [k \in 1..Len(order) |->
            << order[k], entries1[order[k]], entries2[order[k]] >>]
         : order \in Perms(common_entries) }

NoCompare ==
    /\ lines1 = <<>>
    /\ lines2 = <<>>
    /\ dups1 = <<>>
    /\ dups2 = <<>>
    /\ common = <<>>
    /\ common_swapped = <<>>


(***************************************************************************)
(* LineClassifier: analyze_file                                            *)
(***************************************************************************)
RECURSIVE FindIter(_, _)
\* re.finditer(pattern, line, re.IGNORECASE) for one demographic pattern:
\* the matched words, left to right, as written
FindIter(pattern, ws) ==
    IF ws = <<>> THEN <<>>
    ELSE (IF Lower(Head(ws)) \in pattern.words THEN << Head(ws) >> ELSE <<>>)
         \o FindIter(pattern, Tail(ws))

RECURSIVE AddMatchesInFront(_, _, _, _, _)
\* each match recorded in front of the occurrences of its field
AddMatchesInFront(dd, file_path, data_type, matches, occ) ==
    IF matches = <<>> THEN dd
    ELSE LET field_name == Head(matches)
             d1 == IF file_path \in DOMAIN dd THEN dd
                   ELSE DictSet(dd, file_path, EmptyDict)
             d2 == IF field_name \in DOMAIN d1[file_path] THEN d1
                   ELSE DictSet(d1, file_path,
                            DictSet(d1[file_path], field_name,
                                [data_type |-> data_type, occurrences |-> <<>>]))
             d3 == [d2 EXCEPT ![file_path][field_name].occurrences =
                                   << occ >> \o @]
         IN AddMatchesInFront(d3, file_path, data_type, Tail(matches), occ)

RECURSIVE AddMatchesRetyped(_, _, _, _, _)
\* each match recorded with the data_type of the pattern that found it
\* written over the data_type of its field
AddMatchesRetyped(dd, file_path, data_type, matches, occ) ==
    IF matches = <<>> THEN dd
    ELSE LET field_name == Head(matches)
             d1 == IF file_path \in DOMAIN dd THEN dd
                   ELSE DictSet(dd, file_path, EmptyDict)
             d2 == IF field_name \in DOMAIN d1[file_path] THEN d1
                   ELSE DictSet(d1, file_path,
                            DictSet(d1[file_path], field_name,
                                [data_type |-> data_type, occurrences |-> <<>>]))
             d3 == [d2 EXCEPT ![file_path][field_name] =
                      [data_type |-> data_type,
                       occurrences |-> Append(@.occurrences, occ)]]
         IN AddMatchesRetyped(d3, file_path, data_type, Tail(matches), occ)

RECURSIVE AddMatches(_, _, _, _, _)
\* lines 158-170: record each match of one pattern on one line
AddMatches(dd, file_path, data_type, matches, occ) ==
    IF matches = <<>> THEN dd
    ELSE LET field_name == Head(matches)
             d1 == IF file_path \in DOMAIN dd THEN dd
                   ELSE DictSet(dd, file_path, EmptyDict)
             d2 == IF field_name \in DOMAIN d1[file_path] THEN d1
                   ELSE DictSet(d1, file_path,
                            DictSet(d1[file_path], field_name,
                                [data_type |-> data_type, occurrences |-> <<>>]))
             d3 == [d2 EXCEPT ![file_path][field_name].occurrences =
                                   Append(@, occ)]
         IN AddMatches(d3, file_path, data_type, Tail(matches), occ)

RECURSIVE DemographicLine(_, _, _, _, _)
\* lines 156-170: all demographic patterns, in dict order, on one line
DemographicLine(dd, file_path, line_num, line, k) ==
    IF k > Len(demographic_patterns) THEN dd
    ELSE LET pattern == demographic_patterns[k]
             occ == [line_number |-> line_num, code_snippet |-> line]
         IN DemographicLine(
                AddMatches(dd, file_path, pattern.data_type,
                           FindIter(pattern, LineWords(line)), occ),
                file_path, line_num, line, k + 1)

RECURSIVE IntegrationLineFirstOnly(_, _, _, _)
\* a loop over the sub-rules that stops at the first one that matches
IntegrationLineFirstOnly(file_path, line_num, line, k) ==
    IF k > Len(integration_patterns) THEN <<>>
    ELSE IF IntegrationSearch(integration_patterns[k], line)
         THEN << [pattern_type |-> integration_patterns[k].pattern_type,
                  sub_type |-> integration_patterns[k].sub_type,
                  file_path |-> file_path,
                  line_number |-> line_num,
                  code_snippet |-> line] >>
         ELSE IntegrationLineFirstOnly(file_path, line_num, line, k + 1)

RECURSIVE IntegrationLine(_, _, _, _)
\* lines 173-182: every sub-rule, in dict order, on one line
IntegrationLine(file_path, line_num, line, k) ==
    IF k > Len(integration_patterns) THEN <<>>
    ELSE (IF IntegrationSearch(integration_patterns[k], line)
          THEN << [pattern_type |-> integration_patterns[k].pattern_type,
                   sub_type |-> integration_patterns[k].sub_type,
                   file_path |-> file_path,
                   line_number |-> line_num,
                   code_snippet |-> line] >>
          ELSE <<>>)
         \o IntegrationLine(file_path, line_num, line, k + 1)

RECURSIVE AnalyzeLines(_, _, _, _)
\* lines 154-182: the loop over enumerate(content, 1)
AnalyzeLines(res, file_path, content, line_num) ==
    IF line_num > Len(content) THEN res
    ELSE LET line == content[line_num] IN
         AnalyzeLines(
            [demographic_data |->
                DemographicLine(res.demographic_data, file_path, line_num, line, 1),
             integration_patterns |->
                res.integration_patterns
                    \o IntegrationLine(file_path, line_num, line, 1)],
            file_path, content, line_num + 1)

EmptyFileResults == [demographic_data |-> EmptyDict, integration_patterns |-> <<>>]

\* lines 151-152: open and readlines; both raise on a file that cannot be
\* read or decoded, before any line is returned
ReadLines(files, file_path) ==
    IF files[file_path].readable
    THEN [raised |-> FALSE, content |-> files[file_path].content]
    ELSE [raised |-> TRUE, content |-> <<>>]

\* an except clause that lets the error out again
AnalyzeErrorRaised(res) == [raised |-> TRUE, results |-> res]

\* lines 184-187: the except clause logs the error and the function goes
\* on to return the results it holds
AnalyzeError(res) == [raised |-> FALSE, results |-> res]

\* lines 154-182 started on the empty results, for every path and every
\* content a file of the model can hold: the loop depends on nothing else
LinesLoop ==
    [file_path \in AllFiles |->
        [content \in Contents \cup {OtherContent} |->
            AnalyzeLines(EmptyFileResults, file_path, content, 1)]]

\* analyze_file(file_path) on the file system `files`: whether the call
\* raises, and the dict it returns
analyze_file(files, file_path) ==
    LET f == ReadLines(files, file_path) IN
    IF f.raised THEN AnalyzeError(EmptyFileResults)
    ELSE [raised |-> FALSE, results |-> LinesLoop[file_path][f.content]]

(***************************************************************************)
(* ResultAggregator: update_results                                        *)
(***************************************************************************)
\* sum(len(data['occurrences']) for data in fields.values())
\* a count of the fields, not of their occurrences
OccurrenceCountOfFields(fields) == Cardinality(DOMAIN fields)

OccurrenceCount(fields) ==
    SumSet(DOMAIN fields, [fn \in DOMAIN fields |-> Len(fields[fn].occurrences)])

\* lines 214-217: the sum over all files and fields of the list lengths
TotalOccurrences(demographic_data) ==
    SumSet(DOMAIN demographic_data,
           [f \in DOMAIN demographic_data |-> OccurrenceCount(demographic_data[f])])

\* the list of a field already present replaced by the new one
MergeFieldsReplacing(main_dd, file, fields) ==
    IF file \notin DOMAIN main_dd THEN fields
    ELSE [fn \in (DOMAIN main_dd[file]) \cup (DOMAIN fields) |->
            IF fn \in DOMAIN fields THEN fields[fn] ELSE main_dd[file][fn]]

\* lines 196-203 for one file key of file_results: the entry stored under
\* that key afterwards.  sh holds the <<file, field>> pairs whose data
\* object is the very object main_results refers to, so that extending
\* the list of main_results extends it with itself.
MergeFields(main_dd, file, fields) ==
    IF file \notin DOMAIN main_dd THEN fields
    ELSE [fn \in (DOMAIN main_dd[file]) \cup (DOMAIN fields) |->
            IF fn \notin DOMAIN fields THEN main_dd[file][fn]
            ELSE IF fn \notin DOMAIN main_dd[file] THEN fields[fn]
            ELSE [main_dd[file][fn] EXCEPT
                    !.occurrences = @ \o fields[fn].occurrences]]

\* file_results['demographic_data'] once the loop of lines 195-205 has run:
\* a shared list that was extended is longer in file_results as well
FieldsAfter(main_dd, fr_dd, sh) ==
    [file \in DOMAIN fr_dd |->
        [fn \in DOMAIN fr_dd[file] |->
            IF /\ << file, fn >> \in sh
               /\ file \in DOMAIN main_dd
               /\ fn \in DOMAIN main_dd[file]
            THEN [fr_dd[file][fn] EXCEPT !.occurrences = @ \o @]
            ELSE fr_dd[file][fn]]]

\* a counter kept by adding each call's count to the previous total
DemographicFieldsFoundAdded(main_results, new_dd, count) ==
    main_results.summary.demographic_fields_found + count

\* lines 214-217: summary.demographic_fields_found, recomputed from the map
DemographicFieldsFound(main_results, new_dd, count) == TotalOccurrences(new_dd)

\* the set replaced by the keys of the latest file
UniqueFieldsReplaced(unique, fr_dd) ==
    IF DOMAIN fr_dd = {} THEN unique
    ELSE UNION { DOMAIN fr_dd[file] : file \in DOMAIN fr_dd }

\* a set that update_results leaves as it was
UniqueFieldsUntouched(unique, fr_dd) == unique

\* line 205: unique_demographic_fields.update(fields.keys()), per file key
UniqueFields(unique, fr_dd) ==
    unique \cup UNION { DOMAIN fr_dd[file] : file \in DOMAIN fr_dd }

\* a list that takes only the matches it does not hold yet
ExtendIntegrationDeduplicated(main_ip, fr_ip) ==
    main_ip \o SelectSeq(fr_ip, LAMBDA m : m \notin Range(main_ip))

\* lines 208-211: main_results['integration_patterns'].extend(...)
ExtendIntegration(main_ip, fr_ip) == main_ip \o fr_ip

\* update_results(main_results, file_results, file_path): the three
\* objects it leaves behind
update_results(main_results, fr, path, sh) ==
    LET main_dd == main_results.demographic_data
        fr_dd == fr.demographic_data
        new_dd == [file \in (DOMAIN main_dd) \cup (DOMAIN fr_dd) |->
                     IF file \in DOMAIN fr_dd
                     THEN MergeFields(main_dd, file, fr_dd[file])
                     ELSE main_dd[file]]
        fr_after == FieldsAfter(main_dd, fr_dd, sh)
        \* line 204, evaluated after the lists were extended
        demographic_fields_count ==
            SumSet(DOMAIN fr_after,
                   [file \in DOMAIN fr_after |-> OccurrenceCount(fr_after[file])])
        integration_patterns_count == Len(fr.integration_patterns)
        new_ip == ExtendIntegration(main_results.integration_patterns,
                                    fr.integration_patterns)
        new_unique ==
            UniqueFields(main_results.summary.unique_demographic_fields, fr_dd)
    IN [main |->
          [demographic_data |-> new_dd,
           integration_patterns |-> new_ip,
           summary |->
             [files_analyzed |-> main_results.summary.files_analyzed,
              unique_demographic_fields |-> new_unique,
              demographic_fields_found |->
                DemographicFieldsFound(main_results, new_dd,
                                       demographic_fields_count),
              integration_patterns_found |-> Len(new_ip),
              file_details |->
                Append(main_results.summary.file_details,
                       [file_path |-> path,
                        demographic_fields_found |-> demographic_fields_count,
                        integration_patterns_found |-> integration_patterns_count])]],
        fr |-> [fr EXCEPT !.demographic_data = fr_after],
        shared |-> { p \in (DOMAIN fr_dd) \X
                            UNION { DOMAIN fr_dd[g] : g \in DOMAIN fr_dd } :
                        /\ p[2] \in DOMAIN fr_dd[p[1]]
                        /\ \/ p \in sh
                           \/ p[1] \notin DOMAIN main_dd
                           \/ p[2] \notin DOMAIN main_dd[p[1]] }]

(***************************************************************************)
(* SpreadsheetExtractor: the table and its classification.  A text (a      *)
(* column name or the content of a cell) is the sequence of its            *)
(* characters.                                                             *)
(***************************************************************************)
\* str.lower on one character
LowerChar(c) ==
    CASE c = "A" -> "a"
      [] c = "B" -> "b"
      [] c = "C" -> "c"
      [] c = "D" -> "d"
      [] c = "E" -> "e"
      [] c = "F" -> "f"
      [] c = "G" -> "g"
      [] c = "H" -> "h"
      [] c = "I" -> "i"
      [] c = "J" -> "j"
      [] c = "K" -> "k"
      [] c = "L" -> "l"
      [] c = "M" -> "m"
      [] c = "N" -> "n"
      [] c = "O" -> "o"
      [] c = "P" -> "p"
      [] c = "Q" -> "q"
      [] c = "R" -> "r"
      [] c = "S" -> "s"
      [] c = "T" -> "t"
      [] c = "U" -> "u"
      [] c = "V" -> "v"
      [] c = "W" -> "w"
      [] c = "X" -> "x"
      [] c = "Y" -> "y"
      [] c = "Z" -> "z"
      [] OTHER -> c

\* str.lower
LowerStr(text) == [k \in 1..Len(text) |-> LowerChar(text[k])]

\* needle in hay, for two str
Contains(hay, needle) ==
    \E k \in 0..(Len(hay) - Len(needle)) :
        SubSeq(hay, k + 1, k + Len(needle)) = needle

\* lines 248-257: demographic_keywords
demographic_keywords == <<
    << "e", "m", "b", "o", "s", "s", "e", "d", " ", "n", "a", "m", "e" >>,
    << "e", "m", "b", "o", "s", "s", "e", "d", " ", "c", "o", "m", "p", "a", "n", "y", " ", "n", "a", "m", "e" >>,
    << "p", "r", "i", "m", "a", "r", "y", " ", "n", "a", "m", "e" >>,
    << "s", "e", "c", "o", "n", "d", "a", "r", "y", " ", "n", "a", "m", "e" >>,
    << "l", "e", "g", "a", "l", " ", "n", "a", "m", "e" >>,
    << "d", "b", "a", " ", "n", "a", "m", "e" >>,
    << "d", "o", "u", "b", "l", "e", " ", "b", "y", "t", "e", " ", "n", "a", "m", "e" >>,
    << "g", "e", "n", "d", "e", "r" >>,
    << "d", "o", "b" >>,
    << "g", "o", "v", " ", "i", "d", "s" >>,
    << "h", "o", "m", "e", " ", "a", "d", "d", "r", "e", "s", "s" >>,
    << "b", "u", "s", "i", "n", "e", "s", "s", " ", "a", "d", "d", "r", "e", "s", "s" >>,
    << "a", "l", "t", "e", "r", "n", "a", "t", "e", " ", "a", "d", "d", "r", "e", "s", "s" >>,
    << "t", "e", "m", "p", "o", "r", "a", "r", "y", " ", "a", "d", "d", "r", "e", "s", "s" >>,
    << "o", "t", "h", "e", "r", " ", "a", "d", "d", "r", "e", "s", "s" >>,
    << "a", "d", "d", "i", "t", "i", "o", "n", "a", "l", " ", "a", "d", "d", "r", "e", "s", "s", "e", "s" >>,
    << "h", "o", "m", "e", " ", "p", "h", "o", "n", "e" >>,
    << "a", "l", "t", "e", "r", "n", "a", "t", "e", " ", "h", "o", "m", "e", " ", "p", "h", "o", "n", "e" >>,
    << "b", "u", "s", "i", "n", "e", "s", "s", " ", "p", "h", "o", "n", "e" >>,
    << "a", "l", "t", "e", "r", "n", "a", "t", "e", " ", "b", "u", "s", "i", "n", "e", "s", "s", " ", "p", "h", "o", "n", "e" >>,
    << "m", "o", "b", "i", "l", "e", " ", "p", "h", "o", "n", "e" >>,
    << "a", "l", "t", "e", "r", "n", "a", "t", "e", " ", "m", "o", "b", "i", "l", "e", " ", "p", "h", "o", "n", "e" >>,
    << "a", "t", "t", "o", "r", "n", "e", "y", " ", "p", "h", "o", "n", "e" >>,
    << "f", "a", "x" >>,
    << "a", "n", "i", " ", "p", "h", "o", "n", "e" >>,
    << "o", "t", "h", "e", "r", " ", "p", "h", "o", "n", "e" >>,
    << "a", "d", "d", "i", "t", "i", "o", "n", "a", "l", " ", "p", "h", "o", "n", "e" >>,
    << "s", "e", "r", "v", "i", "c", "i", "n", "g", " ", "e", "m", "a", "i", "l" >>,
    << "e", "s", "t", "a", "t", "e", "m", "e", "n", "t", " ", "e", "m", "a", "i", "l" >>,
    << "b", "u", "s", "i", "n", "e", "s", "s", " ", "e", "m", "a", "i", "l" >>,
    << "o", "t", "h", "e", "r", " ", "e", "m", "a", "i", "l", " ", "a", "d", "d", "r", "e", "s", "s" >>,
    << "p", "r", "e", "f", "e", "r", "e", "n", "c", "e", " ", "l", "a", "n", "g", "u", "a", "g", "e", " ", "c", "d" >>,
    << "m", "e", "m", "b", "e", "r", " ", "s", "i", "n", "c", "e", " ", "d", "a", "t", "e" >>,
    << "n", "a", "m", "e" >>,
    << "a", "d", "d", "r", "e", "s", "s" >>,
    << "p", "h", "o", "n", "e" >>,
    << "e", "m", "a", "i", "l" >> >>

\* the texts 'attr_description' and 'description' of lines 267 and 274
attr_description == << "a", "t", "t", "r", "_", "d", "e", "s", "c", "r", "i", "p", "t", "i", "o", "n" >>
description == << "d", "e", "s", "c", "r", "i", "p", "t", "i", "o", "n" >>

\* the other column names the model draws from
attr_id == << "a", "t", "t", "r", "_", "i", "d" >>
note == << "n", "o", "t", "e" >>
Description == << "D", "e", "s", "c", "r", "i", "p", "t", "i", "o", "n" >>
Attr_Description_Old == << "A", "t", "t", "r", "_", "D", "e", "s", "c", "r", "i", "p", "t", "i", "o", "n", "_", "O", "l", "d" >>

\* an empty cell (NaN) and a cell holding a value
NaN == [na |-> TRUE, val |-> <<>>]
Cell(v) == [na |-> FALSE, val |-> v]

\* pd.notna
notna(cell) == ~cell.na

\* the column lists the model draws from
ColumnLists == {
    << attr_id, attr_description, note >>,
    << attr_id, Description, attr_description >>,
    << attr_id, Attr_Description_Old, attr_description >>,
    << attr_id, note, Description >>,
    << attr_id, note >> }

\* the decimal digits of a row number below 100: the text the attr_id
\* column holds in that row
Digit(d) == << "0", "1", "2", "3", "4", "5", "6", "7", "8", "9" >>[d + 1]
RowId(k) == IF k < 10 THEN << Digit(k) >>
            ELSE << Digit(k \div 10), Digit(k % 10) >>

\* the cells a column other than attr_id can hold
CellsOf(col) ==
    IF col = note THEN { NaN, Cell(<< "x" >>) }
    ELSE { NaN, Cell(<< "H", "o", "m", "e", " ", "A", "d", "d", "r", "e", "s", "s" >>), Cell(<< "B", "a", "l", "a", "n", "c", "e" >>) }

\* the rows number k over the columns cols
RowsOver(cols, k) ==
    { [c \in Range(cols) |-> IF c = attr_id THEN Cell(RowId(k)) ELSE g[c]] :
        g \in { h \in [Range(cols) \ { attr_id } ->
                         { NaN, Cell(<< "x" >>), Cell(<< "H", "o", "m", "e", " ", "A", "d", "d", "r", "e", "s", "s" >>), Cell(<< "B", "a", "l", "a", "n", "c", "e" >>) }] :
                  \A c \in Range(cols) \ { attr_id } : h[c] \in CellsOf(c) } }

RECURSIVE TablesOver(_, _)
\* the tables of n rows over the columns cols
TablesOver(cols, n) ==
    IF n = 0 THEN { <<>> }
    ELSE { Append(t, r) : t \in TablesOver(cols, n - 1), r \in RowsOver(cols, n) }

\* a table of n rows that all match
LongTable(n) ==
    [columns |-> << attr_id, attr_description, note >>,
     rows |-> [k \in 1..n |->
                 [c \in { attr_id, attr_description, note } |->
                    IF c = attr_id THEN Cell(RowId(k))
                    ELSE IF c = note THEN NaN
                    ELSE Cell(<< "H", "o", "m", "e", " ", "A", "d", "d", "r", "e", "s", "s" >>)]]]

\* the DataFrames pd.read_excel returns in the model
Tables ==
    UNION { { [columns |-> cols, rows |-> rows] :
                rows \in UNION { TablesOver(cols, n) : n \in 0..MaxRows } }
            : cols \in ColumnLists }
    \cup { LongTable(n) : n \in 0..MaxRecords }

RECURSIVE FirstColumn(_, _)
\* lines 266-269 and 273-276: the first column, in df.columns order, whose
\* lowercased name holds the text; <<>> when there is none
FirstColumn(columns, text) ==
    IF columns = <<>> THEN <<>>
    ELSE IF Contains(LowerStr(Head(columns)), text) THEN Head(columns)
    ELSE FirstColumn(Tail(columns), text)

\* a choice that falls back on the first column of the table
ResolveColumnOrFirst(columns) ==
    LET col == FirstColumn(columns, attr_description) IN
    IF col # <<>> THEN col
    ELSE IF FirstColumn(columns, description) # <<>>
         THEN FirstColumn(columns, description)
         ELSE Head(columns)

\* lines 265-276: the description column analyze_excel_demographic_data
\* works on, <<>> when it finds none
ResolveColumn(columns) ==
    LET col == FirstColumn(columns, attr_description) IN
    IF col # <<>> THEN col ELSE FirstColumn(columns, description)

\* the test of the keywords on the description as written
RowMatchesAsWritten(row, col) ==
    /\ notna(row[col])
    /\ \E k \in 1..Len(demographic_keywords) :
          Contains(row[col].val, demographic_keywords[k])

\* lines 284-287: the description cell is not empty and its lowercased text
\* holds one of the keywords
RowMatches(row, col) ==
    /\ notna(row[col])
    /\ \E k \in 1..Len(demographic_keywords) :
          Contains(LowerStr(row[col].val), demographic_keywords[k])

\* a record that keeps every column of the row
RecordOfAll(columns, row) == [c \in Range(columns) |-> row[c]]

\* lines 288-291: the record of a row, its non-empty cells by column
RecordOf(columns, row) ==
    [c \in { d \in Range(columns) : notna(row[d]) } |-> row[c]]

RECURSIVE ExtractRows(_, _, _)
\* lines 282-292: the records of the matching rows from row k on, in
\* df.iterrows() order
ExtractRows(table, col, k) ==
    IF col = <<>> \/ k > Len(table.rows) THEN <<>>
    ELSE (IF RowMatches(table.rows[k], col)
          THEN << RecordOf(table.columns, table.rows[k]) >>
          ELSE <<>>)
         \o ExtractRows(table, col, k + 1)

(***************************************************************************)
(* SpreadsheetExtractor: the export of the matched records                 *)
(***************************************************************************)
\* the number of files analyze_excel_demographic_data asks for
num_files == 20

\* self.app_name
app_name == "AMEX"

\* datetime.now().strftime('%Y%m%d_%H%M%S') at the start of the export
timestamp == "20260102_030405"

\* the quotient rounded down
records_per_file_floor(len, n) == len \div n

\* the quotient rounded down, plus one
records_per_file_plus_one(len, n) == (len \div n) + 1

\* math.ceil(len(data) / num_files)
records_per_file(len, n) == (len + n - 1) \div n

\* the slice with its last element left out
SliceShort(list, start_idx, end_idx) == SubSeq(list, start_idx + 1, end_idx - 1)

\* the slice with end_idx taken as inclusive
SliceInclusive(list, start_idx, end_idx) == SubSeq(list, start_idx + 1, end_idx + 1)

\* data[start_idx:end_idx] of a Python list (0-based, end exclusive)
Slice(list, start_idx, end_idx) == SubSeq(list, start_idx + 1, end_idx)

\* the guard with <= for <
ChunkGuardInclusive(start_idx, len) == start_idx <= len

\* line 322: the guard under which iteration i writes a chunk
ChunkGuard(start_idx, len) == start_idx < len

\* f'{self.app_name}_demographic_data_{i+1}_{timestamp}.xlsx'
ChunkFileName(k) ==
    << app_name, "_demographic_data_", k + 1, "_", timestamp, ".xlsx" >>

\* f'{self.app_name}_demographic_data_{i+1}.xlsx'
SummaryFileName(k) == << app_name, "_demographic_data_", k + 1, ".xlsx" >>

\* [f'{self.app_name}_demographic_data_{i+1}.xlsx' for i in range(20)]
SummaryFileNames == [k \in 1..20 |-> SummaryFileName(k - 1)]

\* lines 98-113: the results dict a scan starts from
EmptyResults ==
    [demographic_data |-> EmptyDict,
     integration_patterns |-> <<>>,
     summary |-> [files_analyzed |-> 0,
                  unique_demographic_fields |-> {},
                  demographic_fields_found |-> 0,
                  integration_patterns_found |-> 0,
                  file_details |-> <<>>]]

\* lines 240-245: the summary analyze_excel_demographic_data starts from
EmptyExcelSummary == [total_records |-> 0, demographic_fields_found |-> 0]

NoExcel ==
    /\ df = LongTable(0)
    /\ attr_desc_col = <<>>
    /\ excel_summary = EmptyExcelSummary
    /\ data = <<>>
    /\ chunks = <<>>
    /\ written = <<>>
    /\ i = 0
    /\ exported_files = <<>>

NoScan ==
    /\ root_ok = TRUE
    /\ fs = [p \in AllFiles |-> [readable |-> TRUE, content |-> <<>>]]
    /\ results = EmptyResults
    /\ file_results = EmptyFileResults
    /\ shared = {}
    /\ fr_folded = FALSE
    /\ stale = FALSE
    /\ code_files = <<>>
    /\ idx = 0
    /\ cur_path = "none"
    /\ returned = <<>>

ExcelInit ==
    /\ NoScan
    /\ df \in Tables
    /\ attr_desc_col = <<>>
    /\ excel_summary = EmptyExcelSummary
    /\ data = <<>>
    /\ chunks = <<>>
    /\ written = <<>>
    /\ i = 0
    /\ exported_files = <<>>
    /\ NoCompare
    /\ pc = "excel_start"

\* lines 261-295 and 304-306: the table is read, the description column
\* chosen and the matching rows collected; without a description column
\* the ValueError of line 279 is logged and raised again to the caller
AnalyzeExcel ==
    /\ pc = "excel_start"
    /\ LET col == ResolveColumn(df.columns)
           demographic_data == ExtractRows(df, col, 1)
       IN /\ attr_desc_col' = col
          /\ IF col = <<>>
             THEN /\ excel_summary' =
                        [excel_summary EXCEPT !.total_records = Len(df.rows)]
                  /\ data' = data
                  /\ pc' = "excel_failed"
             ELSE /\ excel_summary' =
                        [total_records |-> Len(df.rows),
                         demographic_fields_found |-> Len(demographic_data)]
                  /\ data' = demographic_data
                  /\ pc' = "excel"
    /\ UNCHANGED << df, chunks, written, i, exported_files >>

\* lines 298-299 and 312-316: analyze_excel_demographic_data has collected
\* a non-empty list and calls export_demographic_to_files(data, 20)
ExportCall ==
    /\ pc = "excel"
    /\ data # <<>>
    /\ i' = 0
    /\ pc' = "export"
    /\ UNCHANGED << df, attr_desc_col, excel_summary,
                    data, chunks, written, exported_files >>

\* lines 298 and 302: nothing matched, the results are returned as they are
ExcelReturnEmpty ==
    /\ pc = "excel"
    /\ data = <<>>
    /\ pc' = "excel_done"
    /\ UNCHANGED << df, attr_desc_col, excel_summary,
                    data, chunks, written, i, exported_files >>

\* lines 318-328: one iteration of the loop over range(num_files)
ExportIteration ==
    /\ pc = "export"
    /\ i < num_files
    /\ LET rpf == records_per_file(Len(data), num_files)
           start_idx == i * rpf
           end_idx == Min((i + 1) * rpf, Len(data))
       IN IF ChunkGuard(start_idx, Len(data))
          THEN /\ chunks' = Append(chunks, Slice(data, start_idx, end_idx))
               /\ written' = Append(written, ChunkFileName(i))
          ELSE UNCHANGED << chunks, written >>
    /\ i' = i + 1
    /\ UNCHANGED << df, attr_desc_col, excel_summary, data, exported_files, pc >>

\* lines 300-302: the export has returned; the summary lists the files
ExportReturn ==
    /\ pc = "export"
    /\ i = num_files
    /\ exported_files' = SummaryFileNames
    /\ pc' = "excel_done"
    /\ UNCHANGED << df, attr_desc_col, excel_summary, data, chunks, written, i >>

(***************************************************************************)
(* scan_repository                                                         *)
(***************************************************************************)
\* the file systems the model draws from: every supported file is either
\* unreadable or holds one of Contents
FileSystems ==
    { f \in [AllFiles -> [readable : BOOLEAN,
                          content : Contents \cup {OtherContent}]] :
        /\ \A p \in AllFiles : ~f[p].readable => f[p].content = <<>>
        /\ \A p \in CodeFiles : f[p].content \in Contents
        /\ \A p \in AllFiles \ CodeFiles :
              f[p].readable /\ f[p].content = OtherContent }

\* os.walk(self.repo_path): the files it yields, as the lists they can be
\* yielded in.  It lists the root directory before its subdirectory and
\* the files of one directory in an order the file system decides.  It is
\* called without onerror, so a root that is missing or cannot be listed
\* yields nothing and raises nothing.
Walk ==
    IF root_ok
    THEN { r \o s : r \in Perms(RootFiles), s \in Perms(SubFiles) }
    ELSE { <<>> }

\* the walk with every file kept, whatever its suffix
get_code_files_unfiltered == Walk

\* get_code_files: the files of the walk whose suffix is a key of
\* supported_extensions, in walk order
get_code_files ==
    { SelectSeq(w, LAMBDA p : Suffix(p) \in supported_extensions) : w \in Walk }

\* the file system of a run whose root is missing: no file is consulted
NoFiles == [p \in AllFiles |-> [readable |-> TRUE, content |-> <<>>]]

Init ==
    /\ root_ok \in BOOLEAN
    /\ fs \in IF root_ok THEN FileSystems ELSE { NoFiles }
    /\ results = EmptyResults
    /\ file_results = EmptyFileResults
    /\ shared = {}
    /\ fr_folded = FALSE
    /\ stale = FALSE
    /\ code_files = <<>>
    /\ idx = 0
    /\ cur_path = "none"
    /\ returned = <<>>
    /\ pc = "scan"
    /\ NoExcel
    /\ NoCompare

\* lines 98-113: the results dict a scan_repository call starts from, given
\* the dict the call before it ended with
StartResultsCarried(previous) ==
    [previous EXCEPT !.summary.unique_demographic_fields = Range(@)]

StartResults(previous) == EmptyResults

\* line 116: the call of get_code_files that starts the loop; a directory
\* that did not change is listed in the order it was listed in before
GetCodeFiles ==
    /\ pc = "scan"
    /\ code_files' \in get_code_files
    /\ returned # <<>> => code_files' = code_files
    /\ idx' = 1
    /\ pc' = "loop"
    /\ UNCHANGED << root_ok, fs, results, file_results, shared, fr_folded, stale,
                    cur_path, returned >>
    /\ UNCHANGED excelVars
    /\ UNCHANGED compareVars

\* lines 125-127: the exception is logged and raised again; the caller is
\* handed the exception and no dict
Raise == [raised |-> TRUE]

\* line 123: return results
Return(res) == [raised |-> FALSE, results |-> res]

\* a count of the files in which something was found
CountFileWithFindings(res) ==
    LET d == res.summary.file_details[Len(res.summary.file_details)] IN
    IF d.demographic_fields_found + d.integration_patterns_found > 0
    THEN [res EXCEPT !.summary.files_analyzed = @ + 1]
    ELSE res

\* line 120: results['summary']['files_analyzed'] += 1
CountFile(res) == [res EXCEPT !.summary.files_analyzed = @ + 1]

\* lines 116-120 and 125-127: one iteration of the loop over the code
\* files; an exception leaves the loop and is raised again to the caller
ScanFile ==
    /\ pc = "loop"
    /\ idx <= Len(code_files)
    /\ LET path == code_files[idx]
           a == analyze_file(fs, path)
           r == update_results(results, a.results, path, {})
       IN /\ cur_path' = path
          /\ IF a.raised
             THEN /\ pc' = "failed"
                  /\ returned' = Append(returned, Raise)
                  /\ UNCHANGED << results, file_results, shared, fr_folded, idx >>
             ELSE /\ file_results' = r.fr
                  /\ shared' = r.shared
                  /\ results' = CountFile(r.main)
                  /\ fr_folded' = TRUE
                  /\ idx' = idx + 1
                  /\ pc' = pc
                  /\ UNCHANGED returned
    /\ UNCHANGED << root_ok, fs, stale, code_files >>
    /\ UNCHANGED excelVars
    /\ UNCHANGED compareVars

\* lines 122-123 and 334: the loop is over, generate_report turns the set
\* of unique fields into a list (in the iteration order of the set, which
\* the program does not control), the report is written and the results
\* are returned
GenerateReport ==
    /\ pc = "loop"
    /\ idx > Len(code_files)
    /\ \E order \in Perms(results.summary.unique_demographic_fields) :
          results' = [results EXCEPT !.summary.unique_demographic_fields = order]
    /\ returned' = Append(returned, Return(results'))
    /\ pc' = "done"
    /\ UNCHANGED << root_ok, fs, file_results, shared, fr_folded, stale, code_files,
                    idx, cur_path >>
    /\ UNCHANGED excelVars
    /\ UNCHANGED compareVars

\* lines 122, 334-338, 394-395 and 125-127: the report file cannot be
\* opened for writing; the OSError leaves generate_report and
\* scan_repository logs it and raises it again
GenerateReportFails ==
    /\ pc = "loop"
    /\ idx > Len(code_files)
    /\ \E order \in Perms(results.summary.unique_demographic_fields) :
          results' = [results EXCEPT !.summary.unique_demographic_fields = order]
    /\ returned' = Append(returned, Raise)
    /\ pc' = "report_failed"
    /\ UNCHANGED << root_ok, fs, file_results, shared, fr_folded, stale, code_files,
                    idx, cur_path >>
    /\ UNCHANGED excelVars
    /\ UNCHANGED compareVars

\* lines 94-113: the caller calls scan_repository of the same analyzer
\* again, over the same files
ScanAgain ==
    /\ pc \in {"done", "failed", "report_failed"}
    /\ Len(returned) < MaxScans
    /\ results' = StartResults(results)
    /\ file_results' = EmptyFileResults
    /\ shared' = {}
    /\ fr_folded' = FALSE
    /\ idx' = 0
    /\ cur_path' = "none"
    /\ pc' = "scan"
    /\ UNCHANGED << root_ok, fs, stale, code_files, returned >>
    /\ UNCHANGED excelVars
    /\ UNCHANGED compareVars

Next == GetCodeFiles \/ ScanFile \/ GenerateReport \/ GenerateReportFails

Spec == Init /\ [][Next]_vars

(***************************************************************************)
(* scan_repository called more than once on one analyzer                   *)
(***************************************************************************)
\* an existing root whose files are unreadable or hold one of two contents
RescanInit ==
    /\ root_ok = TRUE
    /\ fs \in { f \in FileSystems :
                  \A p \in CodeFiles :
                      f[p].readable =>
                          \E c \in Contents :
                              /\ f[p].content = c
                              /\ Len(c) = 3
                              /\ "HOME_ADDRESS" \notin Range(c[1]) }
    /\ results = EmptyResults
    /\ file_results = EmptyFileResults
    /\ shared = {}
    /\ fr_folded = FALSE
    /\ stale = FALSE
    /\ code_files = <<>>
    /\ idx = 0
    /\ cur_path = "none"
    /\ returned = <<>>
    /\ pc = "scan"
    /\ NoExcel
    /\ NoCompare

RescanNext ==
    GetCodeFiles \/ ScanFile \/ GenerateReport \/ GenerateReportFails \/ ScanAgain

RescanSpec == RescanInit /\ [][RescanNext]_vars

(***************************************************************************)
(* update_results under any sequence of calls                              *)
(***************************************************************************)
FoldInit ==
    /\ root_ok = TRUE
    /\ fs \in FileSystems
    /\ results = EmptyResults
    /\ file_results = EmptyFileResults
    /\ shared = {}
    /\ fr_folded = FALSE
    /\ stale = FALSE
    /\ code_files = <<>>
    /\ idx = 0
    /\ cur_path = "none"
    /\ returned = <<>>
    /\ pc = "fold"
    /\ NoExcel
    /\ NoCompare

\* a caller classifies one file: analyze_file returns a new dict
CallAnalyzeFile ==
    /\ pc = "fold"
    /\ Len(results.summary.file_details) < MaxFolds
    /\ \E path \in CodeFiles :
          LET a == analyze_file(fs, path) IN
          /\ ~a.raised
          /\ cur_path' = path
          /\ file_results' = a.results
    /\ shared' = {}
    /\ fr_folded' = FALSE
    /\ UNCHANGED << root_ok, fs, results, stale, code_files, idx, returned, pc >>
    /\ UNCHANGED excelVars
    /\ UNCHANGED compareVars

\* a caller folds the dict it holds, whether or not it was folded before
CallUpdateResults ==
    /\ pc = "fold"
    /\ cur_path # "none"
    /\ Len(results.summary.file_details) < MaxFolds
    /\ LET r == update_results(results, file_results, cur_path, shared)
       IN /\ results' = r.main
          /\ file_results' = r.fr
          /\ shared' = r.shared
    /\ stale' = (stale \/ fr_folded)
    /\ fr_folded' = TRUE
    /\ UNCHANGED << root_ok, fs, code_files, idx, cur_path, returned, pc >>
    /\ UNCHANGED excelVars
    /\ UNCHANGED compareVars

FoldNext == CallAnalyzeFile \/ CallUpdateResults

FoldSpec == FoldInit /\ [][FoldNext]_vars

(***************************************************************************)
(* The spreadsheet export                                                  *)
(***************************************************************************)
ExcelNext ==
    \/ AnalyzeExcel /\ UNCHANGED << scanVars, compareVars >>
    \/ ExportCall /\ UNCHANGED << scanVars, compareVars >>
    \/ ExcelReturnEmpty /\ UNCHANGED << scanVars, compareVars >>
    \/ ExportIteration /\ UNCHANGED << scanVars, compareVars >>
    \/ ExportReturn /\ UNCHANGED << scanVars, compareVars >>

ExcelSpec == ExcelInit /\ [][ExcelNext]_vars

(***************************************************************************)
(* compare_files run on two files                                          *)
(***************************************************************************)
CompareInit ==
    /\ NoScan
    /\ NoExcel
    /\ lines1 \in FilesUpTo(MaxLines)
    /\ lines2 \in FilesUpTo(MaxLines2)
    /\ dups1 = <<>>
    /\ dups2 = <<>>
    /\ common = <<>>
    /\ common_swapped = <<>>
    /\ pc = "compare"

\* lines 336-337 of compare_files.py: main looks for the duplicates of
\* each file
WithinFiles ==
    /\ pc = "compare"
    /\ dups1' = find_duplicates_within_file(lines1)
    /\ dups2' = find_duplicates_within_file(lines2)
    /\ pc' = "within_done"
    /\ UNCHANGED << lines1, lines2, common, common_swapped >>
    /\ UNCHANGED << scanVars, excelVars >>

\* line 338: main looks for the entries the two files share
BetweenFiles ==
    /\ pc = "within_done"
    /\ common' \in find_duplicates_between_files(lines1, lines2)
    /\ pc' = "between_done"
    /\ UNCHANGED << lines1, lines2, dups1, dups2, common_swapped >>
    /\ UNCHANGED << scanVars, excelVars >>

\* a caller asks for the shared entries with the two files swapped
BetweenFilesSwapped ==
    /\ pc = "between_done"
    /\ common_swapped' \in find_duplicates_between_files(lines2, lines1)
    /\ pc' = "compared"
    /\ UNCHANGED << lines1, lines2, dups1, dups2, common >>
    /\ UNCHANGED << scanVars, excelVars >>

CompareNext == WithinFiles \/ BetweenFiles \/ BetweenFilesSwapped

CompareSpec == CompareInit /\ [][CompareNext]_vars

(***************************************************************************)
(* Properties of update_results                                            *)
(***************************************************************************)
\* the file paths of the update_results calls made so far, in call order
History == [k \in 1..Len(results.summary.file_details) |->
                results.summary.file_details[k].file_path]

Distinct(s) == \A a, b \in 1..Len(s) : a # b => s[a] # s[b]

\* every occurrence held by a demographic map, as <<file, field, position>>
OccurrenceSlots(dd) ==
    UNION { UNION { { << f, fn, k >> : k \in 1..Len(dd[f][fn].occurrences) }
                    : fn \in DOMAIN dd[f] }
            : f \in DOMAIN dd }

\* C1: after every update_results call, in any sequence of calls,
\* summary.demographic_fields_found is the number of occurrences held by
\* demographic_data over all files and fields.
C1_TotalIsSumOfListLengths ==
    results.summary.demographic_fields_found
        = Cardinality(OccurrenceSlots(results.demographic_data))

\* a dict folded a second time has left the total in step with the map
C1_Witness ==
    /\ pc = "fold"
    /\ stale
    /\ results.summary.demographic_fields_found > 2
    /\ Cardinality(DOMAIN results.demographic_data) > 1

RECURSIVE FoldSeqOn(_, _, _)
\* the model built on the file system `files` by folding the files of
\* `order`, one new analyze_file result each, into `main`
FoldSeqOn(files, main, order) ==
    IF order = <<>> THEN main
    ELSE FoldSeqOn(files,
                   update_results(main, analyze_file(files, Head(order)).results,
                                  Head(order), {}).main,
                   Tail(order))

FoldSeq(main, order) == FoldSeqOn(fs, main, order)

\* two partial models combined: union of the file maps, concatenation of
\* the integration lists and of the per-file summaries, totals recomputed
Combine(A, B) ==
    LET dd == [f \in (DOMAIN A.demographic_data) \cup (DOMAIN B.demographic_data) |->
                 IF f \in DOMAIN A.demographic_data
                 THEN A.demographic_data[f] ELSE B.demographic_data[f]]
        ip == A.integration_patterns \o B.integration_patterns
    IN [demographic_data |-> dd,
        integration_patterns |-> ip,
        summary |->
          [files_analyzed |-> A.summary.files_analyzed + B.summary.files_analyzed,
           unique_demographic_fields |->
              A.summary.unique_demographic_fields
                \cup B.summary.unique_demographic_fields,
           demographic_fields_found |-> Cardinality(OccurrenceSlots(dd)),
           integration_patterns_found |-> Len(ip),
           file_details |-> A.summary.file_details \o B.summary.file_details]]

\* the integration matches of one file, in list order
MatchesOf(ip, f) == SelectSeq(ip, LAMBDA m : m.file_path = f)

\* equal models up to the order in which the files were folded
SameUpToFileOrder(A, B) ==
    /\ A.demographic_data = B.demographic_data
    /\ A.summary.unique_demographic_fields = B.summary.unique_demographic_fields
    /\ A.summary.demographic_fields_found = B.summary.demographic_fields_found
    /\ A.summary.integration_patterns_found = B.summary.integration_patterns_found
    /\ Len(A.integration_patterns) = Len(B.integration_patterns)
    /\ \A f \in AllFiles :
          MatchesOf(A.integration_patterns, f) = MatchesOf(B.integration_patterns, f)
    /\ Len(A.summary.file_details) = Len(B.summary.file_details)
    /\ Range(A.summary.file_details) = Range(B.summary.file_details)

\* C2: folding distinct files in any order, or combining partial models
\* over disjoint subsets, gives the model of the sequential fold up to the
\* order of files.
C2_FoldOrderIndependent ==
    (pc = "fold" /\ ~stale /\ Distinct(History)) =>
        \A S \in SUBSET Range(History) :
            \A o1 \in Perms(S), o2 \in Perms(Range(History) \ S) :
                /\ SameUpToFileOrder(FoldSeq(EmptyResults, o1 \o o2), results)
                /\ SameUpToFileOrder(Combine(FoldSeq(EmptyResults, o1),
                                             FoldSeq(EmptyResults, o2)),
                                     results)

\* three distinct files folded, two of them with demographic fields and
\* one of them with integration matches
C2_Witness ==
    /\ pc = "fold"
    /\ ~stale
    /\ Distinct(History)
    /\ Len(History) = 3
    /\ Cardinality(DOMAIN results.demographic_data) >= 2
    /\ Cardinality(results.summary.unique_demographic_fields) >= 3
    /\ results.summary.integration_patterns_found >= 2

\* s without its last element
Front(s) == SubSeq(s, 1, Len(s) - 1)

Count(s, x) == Cardinality({ k \in 1..Len(s) : s[k] = x })

\* C3: classifying a file a second time and folding the new result doubles
\* every occurrence list of that file and the file's share of the totals,
\* and leaves the set of unique field names as after the single fold.
C3_SecondFoldDoubles ==
    (/\ pc = "fold"
     /\ ~stale
     /\ Len(History) >= 2
     /\ Count(History, History[Len(History)]) = 2) =>
        LET f == History[Len(History)]
            single == FoldSeq(EmptyResults, Front(History))
            sdd == single.demographic_data
            rdd == results.demographic_data
            share(dd) == IF f \in DOMAIN dd
                         THEN Cardinality(OccurrenceSlots([g \in {f} |-> dd[g]]))
                         ELSE 0
        IN /\ DOMAIN rdd = DOMAIN sdd
           /\ f \in DOMAIN sdd =>
                /\ DOMAIN rdd[f] = DOMAIN sdd[f]
                /\ \A fn \in DOMAIN sdd[f] :
                      /\ Len(rdd[f][fn].occurrences)
                            = 2 * Len(sdd[f][fn].occurrences)
                      /\ rdd[f][fn].occurrences
                            = sdd[f][fn].occurrences \o sdd[f][fn].occurrences
           /\ share(rdd) = 2 * share(sdd)
           /\ results.summary.demographic_fields_found
                = single.summary.demographic_fields_found + share(sdd)
           /\ Len(MatchesOf(results.integration_patterns, f))
                = 2 * Len(MatchesOf(single.integration_patterns, f))
           /\ results.summary.integration_patterns_found
                = single.summary.integration_patterns_found
                    + Len(MatchesOf(single.integration_patterns, f))
           /\ results.summary.unique_demographic_fields
                = single.summary.unique_demographic_fields

\* one file with demographic fields classified and folded twice
C3_Witness ==
    /\ pc = "fold"
    /\ ~stale
    /\ Len(History) = 2
    /\ History[1] = History[2]
    /\ History[1] \in DOMAIN results.demographic_data
    /\ results.summary.demographic_fields_found >= 4

(***************************************************************************)
(* Properties of the spreadsheet export                                    *)
(***************************************************************************)
ChunkSizes == [k \in 1..Len(chunks) |-> Len(chunks[k])]

\* the places <<chunk, position>> where the record r was written
PlacesOf(r) ==
    { p \in (1..Len(chunks)) \X (1..MaxRecords + 2) :
        p[2] <= Len(chunks[p[1]]) /\ chunks[p[1]][p[2]] = r }

\* C4: with num_files = 20 and any record count, the chunk sizes sum to the
\* record count, every record is in exactly one chunk, and the chunk sizes
\* never increase from one chunk to the next.
C4_PartitionComplete ==
    pc = "excel_done" =>
        /\ SumSeq(ChunkSizes) = Len(data)
        /\ \A r \in Range(data) : Cardinality(PlacesOf(r)) = 1
        /\ \A k \in 1..(Len(chunks) - 1) : Len(chunks[k]) >= Len(chunks[k + 1])

\* more records than files, and the records ran out before the files did
C4_Witness ==
    /\ pc = "excel_done"
    /\ Len(data) > num_files
    /\ Len(chunks) > 1
    /\ Len(chunks) < num_files
    /\ Len(chunks[Len(chunks)]) < Len(chunks[1])

\* c is the least integer with c * n >= total
IsCeilOf(c, total, n) == c * n >= total /\ (c - 1) * n < total

\* C5: every chunk written is a contiguous slice of the record sequence,
\* the chunks follow each other in sequence order, and each holds exactly
\* ceil(total / num_files) records except the last one written so far,
\* which may hold fewer.
C5_ChunksAreCeilSlices ==
    \A k \in 1..Len(chunks) :
        LET before == SumSeq(SubSeq(ChunkSizes, 1, k - 1)) IN
        /\ before + Len(chunks[k]) <= Len(data)
        /\ chunks[k] = [j \in 1..Len(chunks[k]) |-> data[before + j]]
        /\ k < Len(chunks) => IsCeilOf(Len(chunks[k]), Len(data), num_files)
        /\ k = Len(chunks) =>
              \E c \in 1..MaxRecords + 2 :
                  IsCeilOf(c, Len(data), num_files) /\ Len(chunks[k]) <= c

\* chunks of two records each were written
C5_Witness ==
    /\ pc = "excel_done"
    /\ Len(chunks) = num_files
    /\ Len(chunks[1]) = 2
    /\ Len(chunks[num_files]) = 2

\* the chunk index a written file name carries
ChunkIndex(name) == name[3]

\* C6: chunks are assigned in order until the records are exhausted: no
\* chunk written is empty, their indices are 1, 2, ... without a gap, at
\* most num_files are written, and fewer than num_files when there are
\* fewer records than files.
C6_NoChunkBeyondData ==
    /\ \A k \in 1..Len(chunks) : chunks[k] # <<>>
    /\ Len(written) = Len(chunks)
    /\ \A k \in 1..Len(written) : ChunkIndex(written[k]) = k
    /\ Len(chunks) <= num_files
    /\ (pc = "excel_done" /\ Len(data) < num_files) => Len(chunks) < num_files

\* fewer records than files: one chunk per record and no more
C6_Witness ==
    /\ pc = "excel_done"
    /\ Len(data) = 5
    /\ Len(chunks) = 5

\* C7 as stated: 47 records give 16 chunks of 3 records followed by a
\* final partial chunk, 47 records in all.
C7_SixteenFullChunks ==
    (pc = "excel_done" /\ Len(data) = 47) =>
        /\ Len(chunks) = 17
        /\ \A k \in 1..16 : Len(chunks[k]) = 3
        /\ Len(chunks[17]) < 3
        /\ SumSeq(ChunkSizes) = 47

\* C7 amended: 47 records give 15 chunks of 3 records followed by a final
\* chunk of 2, 16 chunks and 47 records in all.
C7_FifteenFullChunks ==
    (pc = "excel_done" /\ Len(data) = 47) =>
        /\ Len(chunks) = 16
        /\ \A k \in 1..15 : Len(chunks[k]) = 3
        /\ Len(chunks[16]) = 2
        /\ SumSeq(ChunkSizes) = 47

\* the export of 47 records has returned
C7_Witness ==
    /\ pc = "excel_done"
    /\ Len(data) = 47
    /\ Len(written) = 16
    /\ exported_files # <<>>

\* C8: summary.exported_files names exactly the chunk files written, one
\* entry per chunk, with the 1-based chunk index and the timestamp.
C8_ExportedFilesAreWrittenFiles ==
    pc = "excel_done" => exported_files = written

(***************************************************************************)
(* Properties of scan_repository on unreadable files                       *)
(***************************************************************************)
Unreadable == { f \in CodeFiles : ~fs[f].readable }

\* the per-file summaries recorded for the file f
DetailsOf(f) ==
    SelectSeq(results.summary.file_details, LAMBDA d : d.file_path = f)

\* the fields a readable file's lines give rise to: the words, as written,
\* that one of the demographic patterns matches
FieldsIn(f) ==
    { w \in UNION { Range(LineWords(fs[f].content[n]))
                    : n \in 1..Len(fs[f].content) } :
        \E k \in 1..Len(demographic_patterns) :
            Lower(w) \in demographic_patterns[k].words }

\* C9: an unreadable file is a recoverable error: no exception leaves
\* analyze_file, the file contributes no demographic and no integration
\* match, and the scan goes on to classify every remaining file.
C9_UnreadableFileIsRecoverable ==
    /\ pc # "failed"
    /\ pc \in { "loop", "done" } =>
          /\ History = SubSeq(code_files, 1, idx - 1)
          /\ \A f \in Unreadable \cap Range(History) :
                /\ f \notin DOMAIN results.demographic_data
                /\ MatchesOf(results.integration_patterns, f) = <<>>
                /\ DetailsOf(f) = << [file_path |-> f,
                                      demographic_fields_found |-> 0,
                                      integration_patterns_found |-> 0] >>
          /\ \A f \in (CodeFiles \ Unreadable) \cap Range(History) :
                /\ FieldsIn(f) # {} =>
                      /\ f \in DOMAIN results.demographic_data
                      /\ DOMAIN results.demographic_data[f] = FieldsIn(f)
                /\ FieldsIn(f) = {} => f \notin DOMAIN results.demographic_data
    /\ (pc = "done" /\ root_ok) => Range(History) = CodeFiles

\* the scan met an unreadable file first and classified two files with
\* demographic fields after it
C9_Witness ==
    /\ pc = "done"
    /\ root_ok
    /\ code_files[1] \in Unreadable
    /\ Cardinality(Unreadable) = 1
    /\ Cardinality(DOMAIN results.demographic_data) = 2
    /\ results.summary.integration_patterns_found > 0

\* the file system with the unreadable files made readable and empty
ReadableEmpty ==
    [p \in AllFiles |-> IF p \in Unreadable
                        THEN [readable |-> TRUE, content |-> <<>>]
                        ELSE fs[p]]

\* the results, apart from the order of the unique fields, are those of
\* the same scan over ReadableEmpty: nothing tells the unreadable files
\* from readable empty ones
NoErrorRecorded ==
    LET other == FoldSeqOn(ReadableEmpty, EmptyResults, code_files) IN
    /\ results.demographic_data = other.demographic_data
    /\ results.integration_patterns = other.integration_patterns
    /\ results.summary.file_details = other.summary.file_details
    /\ results.summary.demographic_fields_found
          = other.summary.demographic_fields_found
    /\ results.summary.integration_patterns_found
          = other.summary.integration_patterns_found
    /\ Range(results.summary.unique_demographic_fields)
          = other.summary.unique_demographic_fields
    /\ results.summary.files_analyzed = Len(code_files)

\* C10: when a file is unreadable, the final files_analyzed counts only
\* the files that were classified, and the results record the error.
C10_FilesAnalyzedExcludesUnreadable ==
    (pc = "done" /\ Unreadable # {}) =>
        /\ results.summary.files_analyzed
              = Cardinality(CodeFiles \ Unreadable)
        /\ ~NoErrorRecorded

(***************************************************************************)
(* Properties of scan_repository on a missing root                         *)
(***************************************************************************)
\* C11: when the root path is missing or cannot be traversed the scan
\* ends in an error raised to the caller and returns no results.
C11_MissingRootIsFatal ==
    ~root_ok => pc # "done"

(***************************************************************************)
(* Properties of the spreadsheet classification                            *)
(***************************************************************************)
\* some column name holds 'description', in any letter case
HasDescriptionColumn ==
    \E k \in 1..Len(df.columns) : Contains(LowerStr(df.columns[k]), description)

\* C12: without a column whose name holds 'description' the analysis
\* fails with an error raised to the caller: it returns no result, has
\* collected no record and has written no chunk.
C12_NoDescriptionColumnFails ==
    ~HasDescriptionColumn =>
        /\ pc \in { "excel_start", "excel_failed" }
        /\ data = <<>>
        /\ chunks = <<>>
        /\ written = <<>>
        /\ exported_files = <<>>

\* a table with rows and no description column was refused
C12_Witness ==
    /\ pc = "excel_failed"
    /\ ~HasDescriptionColumn
    /\ Len(df.rows) > 0
    /\ excel_summary.total_records = Len(df.rows)

\* C13: the column chosen is the one named exactly attr_description
\* whenever the table has one, whatever the other columns and their order.
C13_ExactColumnChosen ==
    (pc # "excel_start" /\ attr_description \in Range(df.columns)) =>
        attr_desc_col = attr_description

\* the analysis got past the choice of the column
Analyzed == pc \in { "excel", "export", "excel_done" }

\* the numbers of the rows whose description cell is not empty and holds,
\* once lowercased, a keyword of the list
MatchingRows ==
    { k \in 1..Len(df.rows) :
        LET cell == df.rows[k][attr_desc_col] IN
        /\ ~cell.na
        /\ \E n \in 1..Len(demographic_keywords) :
              \E at \in 0..Len(cell.val) :
                  /\ at + Len(demographic_keywords[n]) <= Len(cell.val)
                  /\ \A c \in 1..Len(demographic_keywords[n]) :
                        LowerChar(cell.val[at + c]) = demographic_keywords[n][c] }

\* the number of the row a record was made from
RowNumber(record) ==
    CHOOSE k \in 1..Len(df.rows) : RowId(k) = record[attr_id].val

\* C14: the matched records are the matching rows, each once, in row
\* order, and nothing else; demographic_fields_found is their number.
C14_MatchedRowsInOrder ==
    Analyzed =>
        /\ Len(data) = Cardinality(MatchingRows)
        /\ { RowNumber(data[j]) : j \in 1..Len(data) } = MatchingRows
        /\ \A j \in 1..(Len(data) - 1) : RowNumber(data[j]) < RowNumber(data[j + 1])
        /\ excel_summary.demographic_fields_found = Len(data)

\* of two rows the first did not match and the second, written in mixed
\* case, did
C14_Witness ==
    /\ pc = "excel_done"
    /\ Len(df.rows) = 2
    /\ MatchingRows = { 2 }
    /\ ~df.rows[1][attr_desc_col].na
    /\ Len(data) = 1

\* C15: a matched record holds exactly the non-empty cells of its row,
\* under their columns, with the values of the row.
C15_RecordIsNonEmptyProjection ==
    Analyzed =>
        \A j \in 1..Len(data) :
            LET row == df.rows[RowNumber(data[j])] IN
            /\ DOMAIN data[j] = { c \in Range(df.columns) : ~row[c].na }
            /\ \A c \in DOMAIN data[j] : data[j][c] = row[c] /\ ~data[j][c].na

\* a matched row with an empty cell gave a record without that column
C15_Witness ==
    /\ pc = "excel_done"
    /\ \E j \in 1..Len(data) :
          /\ note \in Range(df.columns)
          /\ note \notin DOMAIN data[j]
          /\ Cardinality(DOMAIN data[j]) = 2

(***************************************************************************)
(* Claims about the files a scan takes                                     *)
(***************************************************************************)
\* the eight suffixes the scan is documented to take
ScannedSuffixes == { ".py", ".java", ".js", ".ts", ".cs", ".php", ".rb", ".xsd" }

\* C16: a finished scan of an existing root has classified every file under
\* the root, in the root directory or below it, whose suffix is one of the
\* eight exactly once, and a file with any other suffix not at all: such a
\* file has no entry in demographic_data, no integration match and no
\* per-file summary, and it causes no error.
C16_OnlySupportedSuffixesScanned ==
    /\ (pc \in {"loop", "done"} /\ root_ok) =>
          \A f \in AllFiles :
              Count(code_files, f) = IF Suffix(f) \in ScannedSuffixes THEN 1 ELSE 0
    /\ (pc = "done" /\ root_ok) =>
          \A f \in AllFiles :
              /\ Count(History, f) = IF Suffix(f) \in ScannedSuffixes THEN 1 ELSE 0
              /\ Suffix(f) \notin ScannedSuffixes =>
                    /\ f \notin DOMAIN results.demographic_data
                    /\ MatchesOf(results.integration_patterns, f) = <<>>
    /\ (\A f \in AllFiles : Suffix(f) \notin ScannedSuffixes => fs[f].readable)
          => pc # "failed"

\* a finished scan that took the file of the subdirectory, found fields in
\* it, and left out a file whose lines hold a field and an endpoint
C16_Witness ==
    /\ pc = "done"
    /\ root_ok
    /\ Len(History) = 3
    /\ "sub/c.py" \in DOMAIN results.demographic_data
    /\ "notes.txt" \notin Range(History)
    /\ fs["notes.txt"].content = OtherContent
    /\ \E k \in 1..Len(integration_patterns) :
          IntegrationSearch(integration_patterns[k], OtherContent[1])

\* the place of a path of the model in the lexicographic order of paths
PathRank(p) ==
    CASE p = "a.py" -> 1
      [] p = "b.java" -> 2
      [] p = "notes.txt" -> 3
      [] p = "sub/c.py" -> 4

\* C17: the files are classified in lexicographic path order, so the order
\* of file_details does not depend on the order in which the file system
\* lists a directory.
C17_ScanOrderIsSortedByPath ==
    pc \in {"loop", "done"} =>
        /\ \A a, b \in 1..Len(code_files) :
              a < b => PathRank(code_files[a]) < PathRank(code_files[b])
        /\ \A a, b \in 1..Len(History) :
              a < b => PathRank(History[a]) < PathRank(History[b])

(***************************************************************************)
(* Claims about the list of unique fields                                  *)
(***************************************************************************)
RECURSIVE KeepFirst(_)
\* a sequence without the later repetitions of its elements
KeepFirst(s) ==
    IF s = <<>> THEN <<>>
    ELSE LET front == KeepFirst(Front(s))
             last == s[Len(s)]
         IN IF last \in Range(front) THEN front ELSE Append(front, last)

RECURSIVE FieldsOfLine(_, _)
\* the fields found on a line, in the order the patterns find them
FieldsOfLine(line, k) ==
    IF k > Len(demographic_patterns) THEN <<>>
    ELSE FindIter(demographic_patterns[k], LineWords(line))
         \o FieldsOfLine(line, k + 1)

RECURSIVE FieldsOfLines(_, _)
FieldsOfLines(content, n) ==
    IF n > Len(content) THEN <<>>
    ELSE FieldsOfLine(content[n], 1) \o FieldsOfLines(content, n + 1)

RECURSIVE FieldsOfFiles(_)
FieldsOfFiles(files) ==
    IF files = <<>> THEN <<>>
    ELSE (IF fs[Head(files)].readable
          THEN FieldsOfLines(fs[Head(files)].content, 1) ELSE <<>>)
         \o FieldsOfFiles(Tail(files))

\* the fields of the scan in the order in which the scan first saw them
FirstSeenOrder == KeepFirst(FieldsOfFiles(code_files))

\* the place of a field of the model in the order of Python's str
FieldRank(w) ==
    CASE w = "HOME_ADDRESS" -> 1
      [] w = "gov_id" -> 2
      [] w = "home_address" -> 3
      [] w = "name" -> 4

InSortedOrder(s) ==
    \A a, b \in 1..Len(s) : a < b => FieldRank(s[a]) < FieldRank(s[b])

\* C18: when scan_repository completes, summary.unique_demographic_fields
\* is a list without duplicates of the fields found, in first-seen order or
\* in sorted order, so that the files scanned fix the list.
C18_UniqueFieldsInStableOrder ==
    pc = "done" =>
        LET unique == results.summary.unique_demographic_fields IN
        /\ Distinct(unique)
        /\ Range(unique) = Range(FirstSeenOrder)
        /\ \/ unique = FirstSeenOrder
           \/ InSortedOrder(unique)

\* the part of C18 the code keeps: a list without duplicates of the fields
C18_UniqueFieldsAreTheFields ==
    pc = "done" =>
        LET unique == results.summary.unique_demographic_fields IN
        /\ Distinct(unique)
        /\ Range(unique) = Range(FirstSeenOrder)

(***************************************************************************)
(* Claims about the matching of one line                                   *)
(***************************************************************************)
\* the sub-rules whose pattern is found on a line
RulesFound(line) ==
    { k \in 1..Len(integration_patterns) :
        IntegrationSearch(integration_patterns[k], line) }

\* the demographic patterns that match a word
PatternsOf(w) ==
    { k \in 1..Len(demographic_patterns) :
        Lower(w) \in demographic_patterns[k].words }

\* the integration matches recorded for line n of file f, in list order
MatchesAt(f, n) ==
    SelectSeq(results.integration_patterns,
              LAMBDA m : m.file_path = f /\ m.line_number = n)

\* the number of occurrences recorded for line n of file f under field w
OccurrencesAt(f, w, n) ==
    IF f \in DOMAIN results.demographic_data
       /\ w \in DOMAIN results.demographic_data[f]
    THEN Cardinality({ j \in 1..Len(results.demographic_data[f][w].occurrences) :
             results.demographic_data[f][w].occurrences[j].line_number = n })
    ELSE 0

\* the readable files the scan has classified so far
Classified == { f \in Range(History) : fs[f].readable }

\* C19: for every line of a classified file, the integration matches
\* recorded for the line are one entry for each sub-rule found on the line,
\* whatever else is found on it, and each word of the line is recorded
\* once for every demographic pattern it matches and every time it occurs,
\* whatever integration matches the line has.
C19_EveryRuleEvaluatedOnEveryLine ==
    pc \in {"loop", "done"} =>
        \A f \in Classified :
            \A n \in 1..Len(fs[f].content) :
                LET line == fs[f].content[n]
                    ms == MatchesAt(f, n)
                IN
                /\ Len(ms) = Cardinality(RulesFound(line))
                /\ \A k \in RulesFound(line) :
                      Cardinality({ j \in 1..Len(ms) :
                          /\ ms[j].pattern_type = integration_patterns[k].pattern_type
                          /\ ms[j].sub_type = integration_patterns[k].sub_type
                          /\ ms[j].code_snippet = line }) = 1
                /\ \A w \in Range(LineWords(line)) :
                      OccurrencesAt(f, w, n)
                          = Count(LineWords(line), w) * Cardinality(PatternsOf(w))

\* a finished scan with a line that five sub-rules of three categories are
\* found on, and a line with two sub-rules of one category and a word that
\* two demographic patterns match
C19_Witness ==
    /\ pc = "done"
    /\ \E f \in Classified :
          \E n \in 1..Len(fs[f].content) :
              /\ Len(MatchesAt(f, n)) = 5
              /\ Cardinality({ MatchesAt(f, n)[j].pattern_type : j \in 1..5 }) = 3
    /\ \E f \in Classified :
          \E n \in 1..Len(fs[f].content) :
              /\ Len(MatchesAt(f, n)) = 2
              /\ MatchesAt(f, n)[1].pattern_type = MatchesAt(f, n)[2].pattern_type
              /\ OccurrencesAt(f, "gov_id", n) = 2
              /\ OccurrencesAt(f, "name", n) = 1

\* the spellings of the identifier home_address among the words of the model
HomeAddressSpellings == { "home_address", "HOME_ADDRESS" }

\* no match of the address pattern is recorded for line n of file f
NoAddressMatchAt(f, n) ==
    f \in DOMAIN results.demographic_data =>
        \A w \in DOMAIN results.demographic_data[f] :
            results.demographic_data[f][w].data_type = "address"
                => OccurrencesAt(f, w, n) = 0

\* C20: a line of a classified file holding the identifier home_address in
\* any letter case gives a match with field home_address and category
\* address at the number of the line, and a line whose only identifier is
\* home_address2 gives no match of home_address or of address.
C20_FieldIsHomeAddress ==
    pc \in {"loop", "done"} =>
        \A f \in Classified :
            \A n \in 1..Len(fs[f].content) :
                LET ws == Range(LineWords(fs[f].content[n])) IN
                /\ ws \cap HomeAddressSpellings # {} =>
                      /\ OccurrencesAt(f, "home_address", n) >= 1
                      /\ results.demographic_data[f]["home_address"].data_type
                            = "address"
                /\ ws = { "home_address2" } =>
                      /\ NoAddressMatchAt(f, n)
                      /\ "home_address2" \notin DOMAIN results.demographic_data[f]

\* C20 with the field the code records: a line of a classified file holding
\* the identifier home_address in some letter case gives a match whose
\* field is the identifier as the line spells it, with category address, at
\* the number of the line; a line whose only identifier is home_address2
\* gives no match of home_address or of address.
C20_FieldIsIdentifierAsWritten ==
    pc \in {"loop", "done"} =>
        \A f \in Classified :
            \A n \in 1..Len(fs[f].content) :
                LET ws == Range(LineWords(fs[f].content[n])) IN
                /\ \A w \in ws \cap HomeAddressSpellings :
                      /\ OccurrencesAt(f, w, n) >= 1
                      /\ results.demographic_data[f][w].data_type = "address"
                /\ ws = { "home_address2" } =>
                      /\ NoAddressMatchAt(f, n)
                      /\ "home_address2" \notin DOMAIN results.demographic_data[f]

\* a classified file with a line that holds HOME_ADDRESS and not
\* home_address, recorded under HOME_ADDRESS, and a line that holds
\* home_address2 alone
C20_Witness ==
    /\ pc = "done"
    /\ \E f \in Classified :
          /\ \E n \in 1..Len(fs[f].content) :
                /\ "HOME_ADDRESS" \in Range(LineWords(fs[f].content[n]))
                /\ "home_address" \notin Range(LineWords(fs[f].content[n]))
                /\ OccurrencesAt(f, "HOME_ADDRESS", n) = 1
                /\ OccurrencesAt(f, "home_address", n) = 0
          /\ \E n \in 1..Len(fs[f].content) :
                /\ Range(LineWords(fs[f].content[n])) = { "home_address2" }
                /\ NoAddressMatchAt(f, n)

(***************************************************************************)
(* Claims about a scan_repository call as a whole                          *)
(***************************************************************************)
\* C21: when a scan_repository call ends with a fatal error after files
\* were classified, its caller is handed the results accumulated so far.
C21_PartialResultsReported ==
    (pc = "report_failed" /\ results.summary.files_analyzed > 0) =>
        LET r == returned[Len(returned)] IN
        /\ "results" \in DOMAIN r
        /\ r.results = results

\* the parts of two results dicts that do not depend on the order of a set
SameScan(A, B) ==
    /\ A.demographic_data = B.demographic_data
    /\ A.integration_patterns = B.integration_patterns
    /\ A.summary.files_analyzed = B.summary.files_analyzed
    /\ A.summary.demographic_fields_found = B.summary.demographic_fields_found
    /\ A.summary.integration_patterns_found = B.summary.integration_patterns_found
    /\ A.summary.file_details = B.summary.file_details
    /\ Range(A.summary.unique_demographic_fields)
          = Range(B.summary.unique_demographic_fields)

\* C22: every scan_repository call starts from the empty results, and any
\* two calls on one analyzer over the same unchanged files that return
\* give equal demographic maps, integration lists, totals and per-file
\* summaries: a call carries nothing over from the calls before it.
C22_ScansAreStateless ==
    /\ pc = "scan" => results = EmptyResults
    /\ \A j, k \in 1..Len(returned) :
          (~returned[j].raised /\ ~returned[k].raised)
              => SameScan(returned[j].results, returned[k].results)

\* two calls that returned, with fields and integration matches found
C22_Witness ==
    /\ Len(returned) = 2
    /\ ~returned[1].raised
    /\ ~returned[2].raised
    /\ returned[2].results.summary.files_analyzed = 3
    /\ returned[2].results.summary.demographic_fields_found >= 4
    /\ returned[2].results.summary.integration_patterns_found >= 4

(***************************************************************************)
(* Claims about what update_results keeps                                  *)
(***************************************************************************)
IsPrefix(s, t) == Len(s) <= Len(t) /\ SubSeq(t, 1, Len(s)) = s

\* C23: in any sequence of update_results calls, a call removes no file
\* and no field from demographic_data, leaves every occurrence list that
\* was there a prefix of the list that is there afterwards, and leaves the
\* integration list a prefix of the integration list afterwards: the lists
\* afterwards are the lists before followed by all the occurrences and all
\* the matches of the folded result, repeated ones included.
C23_UpdateOnlyAppends ==
    [][ pc = "fold" =>
          /\ \A f \in DOMAIN results.demographic_data :
                /\ f \in DOMAIN results'.demographic_data
                /\ \A w \in DOMAIN results.demographic_data[f] :
                      /\ w \in DOMAIN results'.demographic_data[f]
                      /\ IsPrefix(results.demographic_data[f][w].occurrences,
                                  results'.demographic_data[f][w].occurrences)
                      /\ results'.demographic_data[f][w].data_type
                            = results.demographic_data[f][w].data_type
          /\ IsPrefix(results.integration_patterns, results'.integration_patterns)
          /\ Len(results'.summary.file_details) > Len(results.summary.file_details) =>
                /\ results'.integration_patterns
                      = results.integration_patterns \o file_results.integration_patterns
                /\ \A f \in DOMAIN file_results.demographic_data :
                      \A w \in DOMAIN file_results.demographic_data[f] :
                          results'.demographic_data[f][w].occurrences
                            = (IF f \in DOMAIN results.demographic_data
                                  /\ w \in DOMAIN results.demographic_data[f]
                               THEN results.demographic_data[f][w].occurrences
                               ELSE <<>>)
                              \o file_results.demographic_data[f][w].occurrences
      ]_vars

\* a file folded twice from two analyze_file results and another file
\* after it: lists were extended, and the integration list holds the
\* matches of the first file twice
C23_Witness ==
    /\ pc = "fold"
    /\ ~stale
    /\ Len(History) = 3
    /\ History[1] = History[2]
    /\ History[3] # History[1]
    /\ History[1] \in DOMAIN results.demographic_data
    /\ History[3] \in DOMAIN results.demographic_data
    /\ Len(MatchesOf(results.integration_patterns, History[1])) >= 2
    /\ ~Distinct(results.integration_patterns)

(***************************************************************************)
(* Claims about the per-file summaries                                     *)
(***************************************************************************)
\* C24: after every iteration of the loop of scan_repository, file_details
\* holds one entry for each file classified so far, in the order in which
\* they were classified, and is as long as files_analyzed says; when the
\* call completes this is one entry for every scanned file.
C24_OneSummaryPerScannedFile ==
    pc \in {"loop", "done", "report_failed"} =>
        /\ Len(results.summary.file_details) = results.summary.files_analyzed
        /\ History = SubSeq(code_files, 1, idx - 1)
        /\ Distinct(History)
        /\ pc = "done" => History = code_files

\* a completed scan of three files, one of them unreadable and one with
\* nothing to find in it
C24_Witness ==
    /\ pc = "done"
    /\ results.summary.files_analyzed = 3
    /\ Len(results.summary.file_details) = 3
    /\ Unreadable # {}
    /\ \E f \in CodeFiles \ Unreadable : fs[f].content = <<>>
    /\ \E f \in CodeFiles : f \in DOMAIN results.demographic_data

\* the demographic occurrences and the integration matches in the lines
\* of a file, counted line by line
OccurrencesIn(f) ==
    IF fs[f].readable THEN Len(FieldsOfLines(fs[f].content, 1)) ELSE 0

MatchesIn(f) ==
    IF fs[f].readable
    THEN SumSeq([n \in 1..Len(fs[f].content) |->
                    Cardinality(RulesFound(fs[f].content[n]))])
    ELSE 0

\* C25: after any sequence of update_results calls, each on a result that
\* analyze_file has just produced, every per-file summary holds the number
\* of occurrences and of integration matches of the file of its fold, and
\* the per-file numbers add up to the totals of the summary.
C25_SummariesAddUpToTotals ==
    (pc = "fold" /\ ~stale) =>
        LET details == results.summary.file_details IN
        /\ \A k \in 1..Len(details) :
              /\ details[k].demographic_fields_found
                    = OccurrencesIn(details[k].file_path)
              /\ details[k].integration_patterns_found
                    = MatchesIn(details[k].file_path)
        /\ SumSeq([k \in 1..Len(details) |-> details[k].demographic_fields_found])
              = results.summary.demographic_fields_found
        /\ SumSeq([k \in 1..Len(details) |-> details[k].integration_patterns_found])
              = results.summary.integration_patterns_found

\* three folds, two of them of one file, whose summaries hold more
\* occurrences than the file has fields
C25_Witness ==
    /\ pc = "fold"
    /\ ~stale
    /\ Len(History) = 3
    /\ Cardinality(Range(History)) = 2
    /\ \E k \in 1..3 :
          LET d == results.summary.file_details[k] IN
          /\ d.file_path \in DOMAIN results.demographic_data
          /\ d.demographic_fields_found
                > Cardinality(DOMAIN results.demographic_data[d.file_path])
          /\ d.integration_patterns_found > 0
    /\ results.summary.demographic_fields_found >= 6

(***************************************************************************)
(* Claims about the occurrence lists                                       *)
(***************************************************************************)
\* the line numbers of an occurrence list never go down
Ascending(occurrences) ==
    \A a, b \in 1..Len(occurrences) :
        a < b => occurrences[a].line_number <= occurrences[b].line_number

\* every line number of an occurrence list of file f is a line of f
WithinFile(f, occurrences) ==
    \A a \in 1..Len(occurrences) :
        occurrences[a].line_number \in 1..Len(fs[f].content)

\* C26: in the results, whatever update_results calls built them, every
\* occurrence list of a file is in ascending order of line number, and its
\* line numbers are at least 1 and at most the number of lines of the file.
C26_OccurrencesAscending ==
    pc = "fold" =>
        \A f \in DOMAIN results.demographic_data :
            \A w \in DOMAIN results.demographic_data[f] :
                /\ Ascending(results.demographic_data[f][w].occurrences)
                /\ WithinFile(f, results.demographic_data[f][w].occurrences)

\* C26 for the files folded once, as in one pass of scan_repository: their
\* occurrence lists are in ascending order of line number; the line
\* numbers of every list are at least 1 and at most the number of lines of
\* the file.
C26_OccurrencesAscendingPerFold ==
    pc = "fold" =>
        \A f \in DOMAIN results.demographic_data :
            \A w \in DOMAIN results.demographic_data[f] :
                /\ Count(History, f) = 1 =>
                      Ascending(results.demographic_data[f][w].occurrences)
                /\ WithinFile(f, results.demographic_data[f][w].occurrences)

\* a file folded once with a field found on its first and on its third
\* line, next to a file folded twice
C26_Witness ==
    /\ pc = "fold"
    /\ Len(History) = 3
    /\ \E f \in DOMAIN results.demographic_data :
          /\ Count(History, f) = 1
          /\ \E w \in DOMAIN results.demographic_data[f] :
                LET occ == results.demographic_data[f][w].occurrences IN
                /\ Len(occ) = 2
                /\ occ[1].line_number = 1
                /\ occ[2].line_number = 3
    /\ \E f \in DOMAIN results.demographic_data : Count(History, f) = 2

(***************************************************************************)
(* Claims about the set of unique fields                                   *)
(***************************************************************************)
\* the field names keyed under the files of a demographic map
KeyedFields(dd) == UNION { DOMAIN dd[f] : f \in DOMAIN dd }

\* C27: after every update_results call, in any sequence of calls, the set
\* of unique fields of the summary is the set of the field names keyed
\* under the files of demographic_data.
C27_UniqueSetIsKeysOfMap ==
    pc = "fold" =>
        results.summary.unique_demographic_fields
            = KeyedFields(results.demographic_data)

\* two files with different fields folded, one of them twice
C27_Witness ==
    /\ pc = "fold"
    /\ Len(History) = 3
    /\ \E f, g \in DOMAIN results.demographic_data :
          /\ DOMAIN results.demographic_data[f] # DOMAIN results.demographic_data[g]
          /\ Count(History, f) = 2
    /\ Cardinality(results.summary.unique_demographic_fields) = 4

(***************************************************************************)
(* Claims about the category of a field                                    *)
(***************************************************************************)
\* the number of times the word w stands in the lines of a content
TimesIn(content, w) ==
    SumSeq([n \in 1..Len(content) |-> Count(LineWords(content[n]), w)])

\* the first pattern, in catalog order, that matches a word
FirstPatternOf(w) == CHOOSE k \in PatternsOf(w) : \A j \in PatternsOf(w) : k <= j

\* C28: in the dict analyze_file returns for a file, each field has one
\* data_type, that of the first pattern in catalog order that matches the
\* field, and one occurrence for each pattern that matches it and each
\* time it stands in the file: gov_id, which the patterns of id and of
\* identity match, has two occurrences for each time it stands on a line,
\* under one entry of data_type id.
C28_OneCategoryPerField ==
    (pc \in {"loop", "done", "report_failed"}
        /\ cur_path # "none" /\ fs[cur_path].readable) =>
        LET content == fs[cur_path].content
            dd == file_results.demographic_data
        IN
        /\ DOMAIN dd \subseteq { cur_path }
        /\ \A f \in DOMAIN dd :
              \A w \in DOMAIN dd[f] :
                  /\ PatternsOf(w) # {}
                  /\ dd[f][w].data_type
                        = demographic_patterns[FirstPatternOf(w)].data_type
                  /\ Len(dd[f][w].occurrences)
                        = TimesIn(content, w) * Cardinality(PatternsOf(w))
        /\ TimesIn(content, "gov_id") > 0 =>
              /\ dd[cur_path]["gov_id"].data_type = "id"
              /\ Len(dd[cur_path]["gov_id"].occurrences)
                    = 2 * TimesIn(content, "gov_id")

\* analyze_file has returned the dict of a file with gov_id on one line:
\* one entry of data_type id with two occurrences for that line
C28_Witness ==
    /\ pc = "loop"
    /\ cur_path # "none"
    /\ fs[cur_path].readable
    /\ cur_path \in DOMAIN file_results.demographic_data
    /\ "gov_id" \in DOMAIN file_results.demographic_data[cur_path]
    /\ LET e == file_results.demographic_data[cur_path]["gov_id"] IN
       /\ e.data_type = "id"
       /\ Len(e.occurrences) = 2
       /\ e.occurrences[1].line_number = e.occurrences[2].line_number
    /\ "name" \in DOMAIN file_results.demographic_data[cur_path]

(***************************************************************************)
(* Claims about compare_files                                              *)
(***************************************************************************)
\* the numbers of the lines of a file whose stripped text is t
LinesWith(lines, t) == { n \in 1..Len(lines) : Strip(lines[n]) = t }

\* the non-blank stripped texts of a file
TextsOf(lines) == { Strip(lines[n]) : n \in 1..Len(lines) } \ { <<>> }

\* the least number of a non-empty set of line numbers
First(S) == CHOOSE n \in S : \A j \in S : n <= j

\* the numbers of a set of line numbers, as an ascending list
RECURSIVE AscendingList(_)
AscendingList(S) ==
    IF S = {} THEN <<>> ELSE << First(S) >> \o AscendingList(S \ { First(S) })

\* what find_duplicates_within_file is to return for a file
DuplicatesExpected(lines, dups) ==
    /\ \A a, b \in 1..Len(dups) : a < b => dups[a][3] < dups[b][3]
    /\ Range(dups)
          = { << Strip(lines[n]), First(LinesWith(lines, Strip(lines[n]))), n >>
              : n \in { j \in 1..Len(lines) :
                          /\ Strip(lines[j]) # <<>>
                          /\ First(LinesWith(lines, Strip(lines[j]))) < j } }
    /\ \A t \in TextsOf(lines) :
          Cardinality({ k \in 1..Len(dups) : dups[k][1] = t })
              = Cardinality(LinesWith(lines, t)) - 1
    /\ \A k \in 1..Len(dups) : dups[k][1] # <<>> /\ dups[k][2] < dups[k][3]

\* C29: find_duplicates_within_file returns, in ascending order of line
\* number, one entry (text, first_line, dup_line) for every non-blank
\* stripped line that repeats an earlier one: a text on k lines has k-1
\* entries, each with the line of its first occurrence as first_line and
\* first_line < dup_line, and blank lines have none.
C29_DuplicatesWithinFile ==
    pc \in {"within_done", "between_done", "compared"} =>
        /\ DuplicatesExpected(lines1, dups1)
        /\ DuplicatesExpected(lines2, dups2)

\* a file of three lines with one text, written with and without blanks
\* around it, whose second and third line are reported against the first
C29_Witness ==
    /\ pc = "within_done"
    /\ Len(lines1) = 3
    /\ lines1[1] # lines1[2]
    /\ Len(dups1) = 2
    /\ dups1[1][2] = 1 /\ dups1[1][3] = 2
    /\ dups1[2][2] = 1 /\ dups1[2][3] = 3
    /\ << "\n" >> \in Range(lines2)
    /\ Len(dups2) = 0

\* C30: find_duplicates_between_files returns one entry for each non-blank
\* stripped text that stands in both files and no other entry, each with
\* the ascending lists of all the lines of the text in the first and in the
\* second file; with the files swapped it returns the same texts with the
\* two lists swapped.
C30_CommonEntries ==
    /\ pc \in {"between_done", "compared"} =>
          /\ Len(common) = Cardinality(TextsOf(lines1) \cap TextsOf(lines2))
          /\ Range(common)
                = { << t, AscendingList(LinesWith(lines1, t)),
                          AscendingList(LinesWith(lines2, t)) >>
                    : t \in TextsOf(lines1) \cap TextsOf(lines2) }
    /\ pc = "compared" =>
          Range(common_swapped) = { << e[1], e[3], e[2] >> : e \in Range(common) }

\* two texts shared by the files, one of them on two lines of the first
\* file, and a text of the first file that the second lacks
C30_Witness ==
    /\ pc = "compared"
    /\ Len(common) = 2
    /\ \E k \in 1..2 : Len(common[k][2]) = 2 /\ Len(common[k][3]) = 1
    /\ Len(lines1) = 3
    /\ Len(lines2) = 2
    /\ common_swapped # common

====
